---------------------------- MODULE Spec2Model ----------------------------
(***************************************************************************)
(* A model of the CashFlow application (CashFlowApp.jsx, useFirestore.js). *)
(*                                                                         *)
(* Strings are TLA+ strings; TLC evaluates Len, SubSeq and \o on them, so  *)
(* the substring tests, trimming and parsing of the source are computed    *)
(* character by character.  Money is kept in integer cents: 50.00 is 5000. *)
(***************************************************************************)
EXTENDS Integers, Sequences, FiniteSets, TLC

VARIABLES
    \* The pure-function specifications: the arguments of the function under
    \* study and the result of applying it.
    input, output,
    \* useAuth
    user,               \* uid of the signed-in user, NoUser when signed out
    authLoading,        \* TRUE until the first onAuthStateChanged callback
    \* useState of CashFlowApp
    transactions, view, selectedMonth, categoryOverrides,
    csvHeaders, csvData, columnMapping, showMapper,
    savedDatasets, activeDatasetName, dataLoading, saving, uploadFileName,
    \* useRef of CashFlowApp: the pending debounce timer and what its callback closed over
    overrideTimer,
    \* useMemo of CashFlowApp: what the last render holds
    monthlyDataMemo, forecastMemo,
    \* asynchronous calls in flight
    loads,              \* loadUserData calls whose promise has not resolved, oldest first
    saveOps,            \* saveDataset and deleteDataset calls that have not resolved, oldest first
    \* the Firestore collection users/{uid}
    firestore,
    \* history
    used,               \* how many sign-ins and sign-outs, files, re-categorizations and deletions there were
    unsavedOverrides,   \* <<uid, key>> written by updateCategory and not yet passed to saveCategoryOverrides
    recategorized       \* key -> category of the re-categorizations since sign-in

harnessVars == <<input, output>>

stateVars == <<transactions, view, selectedMonth, categoryOverrides, csvHeaders, csvData,
               columnMapping, showMapper, savedDatasets, activeDatasetName, dataLoading,
               saving, uploadFileName>>

memoVars == <<monthlyDataMemo, forecastMemo>>

appVars == <<user, authLoading, stateVars, memoVars, overrideTimer, loads, saveOps,
             firestore, used, unsavedOverrides, recategorized>>

vars == <<harnessVars, appVars>>

(***************************************************************************)
(* JavaScript string primitives used by the source.                        *)
(***************************************************************************)
UPPER == "ABCDEFGHIJKLMNOPQRSTUVWXYZ"
LOWER == "abcdefghijklmnopqrstuvwxyz"

CharAt(s, i) == SubSeq(s, i, i)

\* String.prototype.toLowerCase on one character (ASCII letters).
toLowerChar(c) ==
    IF \E i \in 1..Len(UPPER) : CharAt(UPPER, i) = c
    THEN CharAt(LOWER, CHOOSE i \in 1..Len(UPPER) : CharAt(UPPER, i) = c)
    ELSE c

RECURSIVE toLowerCase(_)
toLowerCase(s) ==
    IF Len(s) = 0 THEN ""
    ELSE toLowerChar(CharAt(s, 1)) \o toLowerCase(SubSeq(s, 2, Len(s)))

\* String.prototype.includes: kw occurs as a contiguous substring of s.
includes(s, kw) ==
    \E i \in 1..(Len(s) - Len(kw) + 1) : SubSeq(s, i, i + Len(kw) - 1) = kw

startsWith(s, p) == Len(s) >= Len(p) /\ SubSeq(s, 1, Len(p)) = p

IsSpace(c) == c \in {" ", "\t", "\n", "\r"}

RECURSIVE trimStart(_)
trimStart(s) ==
    IF Len(s) > 0 /\ IsSpace(CharAt(s, 1)) THEN trimStart(SubSeq(s, 2, Len(s))) ELSE s

RECURSIVE trimEnd(_)
trimEnd(s) ==
    IF Len(s) > 0 /\ IsSpace(CharAt(s, Len(s))) THEN trimEnd(SubSeq(s, 1, Len(s) - 1)) ELSE s

\* String.prototype.trim
trim(s) == trimEnd(trimStart(s))

(***************************************************************************)
(* Keyword Category Index.                                                 *)
(***************************************************************************)
\* The rule table, in the insertion order Object.entries walks it.
CATEGORY_RULES == <<
    [category |-> "Groceries", keywords |-> <<"grocery", "supermarket", "whole foods", "trader joe", "safeway", "kroger", "walmart", "costco", "aldi", "publix", "wegmans", "heb", "food lion", "save-a-lot">>],
    [category |-> "Dining Out", keywords |-> <<"restaurant", "mcdonald", "starbucks", "chipotle", "subway", "pizza", "doordash", "uber eats", "grubhub", "cafe", "coffee", "burger", "taco", "sushi", "diner", "bar & grill">>],
    [category |-> "Transportation", keywords |-> <<"gas", "fuel", "shell", "chevron", "bp", "exxon", "uber", "lyft", "parking", "transit", "metro", "toll", "auto">>],
    [category |-> "Housing", keywords |-> <<"rent", "mortgage", "hoa", "property tax", "home depot", "lowe", "ikea", "furniture">>],
    [category |-> "Utilities", keywords |-> <<"electric", "water", "gas bill", "internet", "comcast", "verizon", "at&t", "t-mobile", "phone", "utility", "power", "energy">>],
    [category |-> "Entertainment", keywords |-> <<"netflix", "spotify", "hulu", "disney", "amazon prime", "movie", "theater", "concert", "game", "steam", "playstation", "xbox", "apple music", "youtube">>],
    [category |-> "Shopping", keywords |-> <<"amazon", "target", "mall", "clothing", "shoes", "nike", "adidas", "zara", "h&m", "nordstrom", "macy", "best buy", "apple store">>],
    [category |-> "Health", keywords |-> <<"pharmacy", "cvs", "walgreens", "doctor", "hospital", "medical", "dental", "vision", "gym", "fitness", "health">>],
    [category |-> "Insurance", keywords |-> <<"insurance", "geico", "state farm", "allstate", "progressive">>],
    [category |-> "Subscriptions", keywords |-> <<"subscription", "membership", "annual fee", "monthly fee", "patreon">>],
    [category |-> "Travel", keywords |-> <<"airline", "hotel", "airbnb", "booking", "flight", "travel", "vacation", "resort">>],
    [category |-> "Education", keywords |-> <<"tuition", "school", "university", "course", "udemy", "textbook", "student">>],
    [category |-> "Income", keywords |-> <<"payroll", "salary", "direct deposit", "deposit", "payment received", "refund", "interest earned", "dividend", "transfer in", "income", "paycheck">>]
>>

\* The {keyword, category} entries of one rule, in keyword order.
RuleEntries(rule) ==
    [j \in 1..Len(rule.keywords) |->
        [keyword |-> toLowerCase(rule.keywords[j]), category |-> rule.category]]

\* index.push(...) over every rule and keyword: the unsorted index.
RECURSIVE FlatIndexFrom(_)
FlatIndexFrom(r) ==
    IF r > Len(CATEGORY_RULES) THEN << >>
    ELSE RuleEntries(CATEGORY_RULES[r]) \o FlatIndexFrom(r + 1)

FlatIndex == FlatIndexFrom(1)

MaxKeywordLen ==
    CHOOSE n \in 0..64 :
        /\ \A i \in 1..Len(FlatIndex) : Len(FlatIndex[i].keyword) <= n
        /\ \E i \in 1..Len(FlatIndex) : Len(FlatIndex[i].keyword) = n

HasLen(e, n) == Len(e.keyword) = n

\* Mutation of SortLongestFirst: the index is left in insertion order.
SortUnsorted(index, n) == index

\* Array.prototype.sort with (a, b) => b.keyword.length - a.keyword.length: a
\* stable sort, so entries of one length keep their order of insertion.
RECURSIVE SortLongestFirst(_, _)
SortLongestFirst(index, n) ==
    IF n < 0 THEN << >>
    ELSE SelectSeq(index, LAMBDA e : HasLen(e, n)) \o SortLongestFirst(index, n - 1)

KEYWORD_INDEX == SortLongestFirst(FlatIndex, MaxKeywordLen)

\* categorize: the category of the first index entry whose keyword the
\* lower-cased description includes, "Other" when there is none.
categorize(description) ==
    LET lower == toLowerCase(description)
        hit(i) == includes(lower, KEYWORD_INDEX[i].keyword)
    IN  IF \E i \in 1..Len(KEYWORD_INDEX) : hit(i)
        THEN KEYWORD_INDEX[CHOOSE i \in 1..Len(KEYWORD_INDEX) :
                              hit(i) /\ \A j \in 1..(i - 1) : ~hit(j)].category
        ELSE "Other"


(***************************************************************************)
(* parseAmount and parseDate.                                              *)
(***************************************************************************)
DIGITS == "0123456789"

IsDigit(c) == \E i \in 1..Len(DIGITS) : CharAt(DIGITS, i) = c

DigitValue(c) == (CHOOSE i \in 1..Len(DIGITS) : CharAt(DIGITS, i) = c) - 1

\* The value of a string of decimal digits ("" is 0).
RECURSIVE DigitsValue(_)
DigitsValue(s) ==
    IF Len(s) = 0 THEN 0
    ELSE 10 * DigitsValue(SubSeq(s, 1, Len(s) - 1)) + DigitValue(CharAt(s, Len(s)))

\* The number of consecutive digits of s from position i on.
RECURSIVE DigitRun(_, _)
DigitRun(s, i) ==
    IF i <= Len(s) /\ IsDigit(CharAt(s, i)) THEN 1 + DigitRun(s, i + 1) ELSE 0

\* replace(/[$,\s]/g, ""): every dollar sign, comma and white space removed.
RECURSIVE stripCurrency(_)
stripCurrency(s) ==
    IF Len(s) = 0 THEN ""
    ELSE LET c == CharAt(s, 1)
             rest == stripCurrency(SubSeq(s, 2, Len(s)))
         IN  IF c \in {"$", ","} \/ IsSpace(c) THEN rest ELSE c \o rest

\* replace(/\((.+)\)/, "-$1"): the left-most "(" that a ")" follows with at least
\* one character between them, and (.+ is greedy) the last ")" of the string;
\* the text before and after the match is kept.
parenToMinus(s) ==
    LET closes == {j \in 1..Len(s) : CharAt(s, j) = ")"}
        opens  == {i \in 1..Len(s) : CharAt(s, i) = "(" /\ \E j \in closes : j >= i + 2}
    IN  IF opens = {} THEN s
        ELSE LET i == CHOOSE a \in opens : \A b \in opens : a <= b
                 j == CHOOSE a \in closes : \A b \in closes : a >= b
             IN  SubSeq(s, 1, i - 1) \o "-" \o SubSeq(s, i + 1, j - 1)
                     \o SubSeq(s, j + 1, Len(s))

NaN == [nan |-> TRUE, cents |-> 0]
Num(c) == [nan |-> FALSE, cents |-> c]

\* The first two fraction digits as cents ("5" is 50 cents, "" is 0); cells of
\* the model carry at most two fraction digits.
FractionCents(f) ==
    IF Len(f) = 0 THEN 0
    ELSE IF Len(f) = 1 THEN 10 * DigitValue(CharAt(f, 1))
    ELSE DigitsValue(SubSeq(f, 1, 2))

\* parseFloat: the longest prefix [+-] digits [. digits] with at least one digit,
\* NaN when there is none.  (Exponents and "Infinity" occur in no cell of the model.)
parseFloat(str) ==
    LET s      == trimStart(str)
        signed == Len(s) > 0 /\ CharAt(s, 1) \in {"+", "-"}
        sign   == IF signed /\ CharAt(s, 1) = "-" THEN -1 ELSE 1
        start  == IF signed THEN 2 ELSE 1
        ni     == DigitRun(s, start)
        dot    == start + ni <= Len(s) /\ CharAt(s, start + ni) = "."
        nf     == IF dot THEN DigitRun(s, start + ni + 1) ELSE 0
        whole  == DigitsValue(SubSeq(s, start, start + ni - 1))
        frac   == FractionCents(SubSeq(s, start + ni + 1, start + ni + nf))
    IN  IF ni + nf = 0 THEN NaN ELSE Num(sign * (100 * whole + frac))

\* parseAmount of a string cell, in cents.  (`|| 0` turns NaN and 0 into 0.)
parseAmount(val) ==
    IF val = "" THEN 0
    ELSE LET f == parseFloat(parenToMinus(stripCurrency(val)))
         IN  IF f.nan \/ f.cents = 0 THEN 0 ELSE f.cents

null == [isNull |-> TRUE]

IsLeap(y) == (y % 4 = 0 /\ y % 100 # 0) \/ y % 400 = 0

DaysInMonth(y, m) ==
    IF m = 2 THEN (IF IsLeap(y) THEN 29 ELSE 28)
    ELSE IF m \in {4, 6, 9, 11} THEN 30 ELSE 31

\* A string of the form YYYY-MM-DD.
IsIsoShape(s) ==
    /\ Len(s) = 10
    /\ CharAt(s, 5) = "-" /\ CharAt(s, 8) = "-"
    /\ \A i \in {1, 2, 3, 4, 6, 7, 9, 10} : IsDigit(CharAt(s, i))

\* new Date(val) for the ISO date form: the calendar date, or an invalid Date.
\* Any other text is parsed in an engine-defined way; the cells the model puts in
\* a date column are ISO dates, blanks and text without digits, which no engine
\* reads as a date.
NewDate(s) ==
    IF ~IsIsoShape(s) THEN null
    ELSE LET y == DigitsValue(SubSeq(s, 1, 4))
             m == DigitsValue(SubSeq(s, 6, 7))
             d == DigitsValue(SubSeq(s, 9, 10))
         IN  IF m \in 1..12 /\ d \in 1..DaysInMonth(y, m)
             THEN [isNull |-> FALSE, year |-> y, month |-> m, day |-> d]
             ELSE null

\* parseDate: null for a falsy cell and for an invalid Date.
parseDate(val) == IF val = "" THEN null ELSE NewDate(val)

(***************************************************************************)
(* Transaction Normalizer: the map/filter of applyMapping.                 *)
(***************************************************************************)
\* undefined is only ever tested for truthiness by the source, like "".
undefined == ""

\* row[key] of a header-keyed record: undefined when the record has no such key.
Cell(row, key) == IF key \in DOMAIN row THEN row[key] ELSE undefined

\* The properties a plain object inherits from Object.prototype under an
\* all-lower-case name.
ObjectPrototype ==
    [k \in {"constructor", "__proto__"} |->
        IF k = "constructor" THEN "function Object() { [native code] }"
        ELSE "[object Object]"]

\* obj[key] of an object used as a map: own property first, then the prototype's.
Get(obj, key) ==
    IF key \in DOMAIN obj THEN obj[key]
    ELSE IF key \in DOMAIN ObjectPrototype THEN ObjectPrototype[key]
    ELSE undefined

Abs(n) == IF n < 0 THEN -n ELSE n

\* Mutation of resolveCategory: the keyword classifier is asked first.
resolveCategoryKeywordFirst(desc, overrides) ==
    IF categorize(desc) # "Other" THEN categorize(desc)
    ELSE IF Get(overrides, toLowerCase(desc)) # ""
    THEN Get(overrides, toLowerCase(desc)) ELSE "Other"

\* overrides[desc.toLowerCase()] || categorize(desc)
resolveCategory(desc, overrides) ==
    LET o == Get(overrides, toLowerCase(desc))
    IN  IF o # "" THEN o ELSE categorize(desc)

\* Mutation of resolveAmount: a debit wins over a credit.
resolveAmountDebitFirst(row, amount, debit, credit) ==
    IF amount # "" THEN parseAmount(Cell(row, amount))
    ELSE LET db == parseAmount(Cell(row, debit))
             cr == parseAmount(Cell(row, credit))
         IN  IF db > 0 THEN -Abs(db) ELSE cr

\* The amount of a record for which an amount path is mapped: the amount cell, or
\* cr > 0 ? cr : -Math.abs(db).  (row[debit] || 0 is the number 0 for a falsy
\* cell, which parseAmount returns as it is; parseAmount("") is 0 as well.)
resolveAmount(row, amount, debit, credit) ==
    IF amount # "" THEN parseAmount(Cell(row, amount))
    ELSE LET db == parseAmount(Cell(row, debit))
             cr == parseAmount(Cell(row, credit))
         IN  IF cr > 0 THEN cr ELSE -Abs(db)

\* The callback of data.map for the record at 0-based position i.
mapRow(row, i, mapping, overrides) ==
    LET d == parseDate(Cell(row, mapping.date))
    IN  IF d = null THEN null
        ELSE IF mapping.amount = "" /\ mapping.debit = ""
                /\ mapping.credit = "" THEN null
        ELSE LET cell == Cell(row, mapping.description)
                 desc == IF cell # "" THEN cell ELSE "Unknown"
             IN  [id |-> i, date |-> d, description |-> desc,
                  amount |-> resolveAmount(row, mapping.amount,
                                           mapping.debit, mapping.credit),
                  category |-> resolveCategory(desc, overrides)]

\* Mutation of normalize: ids are renumbered after the filter.
normalizeRenumbered(data, mapping, overrides) ==
    LET kept == SelectSeq([i \in 1..Len(data) |->
                              mapRow(data[i], i - 1, mapping, overrides)],
                          LAMBDA t : t # null)
    IN  [k \in 1..Len(kept) |-> [kept[k] EXCEPT !.id = k - 1]]

\* Mutation of normalize: a record whose amount resolves to zero is dropped too.
normalizeDropZero(data, mapping, overrides) ==
    SelectSeq([i \in 1..Len(data) |->
                  mapRow(data[i], i - 1, mapping, overrides)],
              LAMBDA t : t # null /\ t.amount # 0)

\* data.map(...).filter(Boolean): the Transactions of the records kept.
normalize(data, mapping, overrides) ==
    SelectSeq([i \in 1..Len(data) |->
                  mapRow(data[i], i - 1, mapping, overrides)],
              LAMBDA t : t # null)

(***************************************************************************)
(* Header Locator and Column Mapper.                                       *)
(***************************************************************************)
HEADER_KEYWORDS == <<"date", "posted", "trans", "desc", "memo", "merchant", "payee",
                     "amount", "debit", "credit", "withdrawal", "deposit", "detail", "narr">>

\* The number of rows the scan for the header row looks at.
HeaderScanRows == 15

Min(a, b) == IF a < b THEN a ELSE b

\* c => String(c).trim() over a row of string cells.
trimCells(row) == [j \in 1..Len(row) |-> trim(row[j])]

\* .filter(c => c !== "")
nonBlank(row) == SelectSeq(row, LAMBDA c : c # "")

\* looksLikeHeaderRow: at least two cells containing a header keyword and at most
\* one cell that is empty, contains "__empty" or starts with an underscore.
looksLikeHeaderRow(columns) ==
    LET lower   == [j \in 1..Len(columns) |-> trim(toLowerCase(columns[j]))]
        hits    == SelectSeq(lower, LAMBDA h :
                       \E k \in 1..Len(HEADER_KEYWORDS) : includes(h, HEADER_KEYWORDS[k]))
        empties == SelectSeq(lower, LAMBDA h :
                       includes(h, "__empty") \/ h = "" \/ startsWith(h, "_"))
    IN  Len(hits) >= 2 /\ Len(empties) <= 1

\* The test of the scan loop on rows[i]: row.length >= 3 && looksLikeHeaderRow(row)
\* with row the trimmed, non-blank cells.
acceptsRow(cells) ==
    LET row == nonBlank(trimCells(cells))
    IN  Len(row) >= 3 /\ looksLikeHeaderRow(row)

\* Mutation of recordOf: the columns are counted over the non-blank header names.
recordOfShifted(headers, r) ==
    LET named == SelectSeq(headers, LAMBDA h : h # "")
    IN  [h \in {named[j] : j \in 1..Len(named)} |->
            LET j == CHOOSE a \in 1..Len(named) :
                         named[a] = h /\ \A b \in 1..Len(named) : named[b] = h => b <= a
            IN  IF j <= Len(r) THEN r[j] ELSE ""]

\* The object built for one data row r: every non-blank header name mapped to
\* r[j] of its column j (the last column of that name), "" when r has no such cell.
recordOf(headers, r) ==
    [h \in {headers[j] : j \in {k \in 1..Len(headers) : headers[k] # ""}} |->
        LET j == CHOOSE a \in 1..Len(headers) :
                     headers[a] = h /\ \A b \in 1..Len(headers) : headers[b] = h => b <= a
        IN  IF j <= Len(r) THEN r[j] ELSE ""]

\* Mutation of detectedAt: the row after the header is skipped as well.
detectedAtSkipOne(rows, i) ==
    LET headers == trimCells(rows[i])
        rest    == SubSeq(rows, i + 2, Len(rows))
        kept    == SelectSeq(rest, LAMBDA r : \E j \in 1..Len(r) : trim(r[j]) # "")
    IN  [isNull |-> FALSE,
         headers |-> nonBlank(headers),
         data |-> [k \in 1..Len(kept) |-> recordOf(headers, kept[k])]]

\* The value returned when the row at 1-based position i is accepted.
detectedAt(rows, i) ==
    LET headers == trimCells(rows[i])
        rest    == SubSeq(rows, i + 1, Len(rows))
        kept    == SelectSeq(rest, LAMBDA r : \E j \in 1..Len(r) : trim(r[j]) # "")
    IN  [isNull |-> FALSE,
         headers |-> nonBlank(headers),
         data |-> [k \in 1..Len(kept) |-> recordOf(headers, kept[k])]]

\* Mutation of scanRows: the whole file is scanned.
scanRowsUnbounded(rows, limit) ==
    LET accepted == {i \in 1..Len(rows) : acceptsRow(rows[i])}
    IN  IF accepted = {} THEN null
        ELSE detectedAt(rows, CHOOSE i \in accepted : \A j \in accepted : i <= j)

\* for (let i = 0; i < Math.min(rows.length, limit); i++): the first accepted row
\* of the window is returned from inside the loop, null after it.
scanRows(rows, limit) ==
    LET accepted == {i \in 1..Min(Len(rows), limit) : acceptsRow(rows[i])}
    IN  IF accepted = {} THEN null
        ELSE detectedAt(rows, CHOOSE i \in accepted : \A j \in accepted : i <= j)

\* findHeaderRowInCSV, on the rows Papa.parse returns for the text.
findHeaderRowInCSV(rows) == scanRows(rows, HeaderScanRows)

\* findHeaderRowInSheet, on the rows sheet_to_json returns (string cells).
findHeaderRowInSheet(rows) == scanRows(rows, HeaderScanRows)

\* h.includes(kw) for one of the keywords.
includesAny(h, keywords) == \E kw \in keywords : includes(h, kw)

\* The keywords the loop of guessMapping tests for each role.
RoleKeywords ==
    [date        |-> {"date", "posted", "trans"},
     description |-> {"desc", "memo", "narr", "merchant", "payee", "name", "detail"},
     amount      |-> {"amount"},
     debit       |-> {"debit", "withdrawal", "out"},
     credit      |-> {"credit", "deposit", "in"}]

\* Mutation of guessRole: the test !mapping[role] is left out.
guessRoleOverwrite(mapping, role, h, header) ==
    IF includesAny(h, RoleKeywords[role])
    THEN [mapping EXCEPT ![role] = header] ELSE mapping

\* if (!mapping[role] && (h.includes(...) || ...)) mapping[role] = headers[i]
guessRole(mapping, role, h, header) ==
    IF mapping[role] = "" /\ includesAny(h, RoleKeywords[role])
    THEN [mapping EXCEPT ![role] = header] ELSE mapping

\* The body of the loop for one header: the five tests in the order of the source.
guessHeader(mapping, header) ==
    LET h  == trim(toLowerCase(header))
        m1 == guessRole(mapping, "date", h, header)
        m2 == guessRole(m1, "description", h, header)
        m3 == guessRole(m2, "amount", h, header)
        m4 == guessRole(m3, "debit", h, header)
    IN  guessRole(m4, "credit", h, header)

\* for (let i = 0; i < lower.length; i++) from the 1-based position i on.
RECURSIVE guessFrom(_, _, _)
guessFrom(headers, i, mapping) ==
    IF i > Len(headers) THEN mapping
    ELSE guessFrom(headers, i + 1, guessHeader(mapping, headers[i]))

guessMapping(headers) ==
    guessFrom(headers, 1,
              [date |-> "", description |-> "", amount |-> "", debit |-> "", credit |-> ""])

(***************************************************************************)
(* The application: useAuth, the state of CashFlowApp, its effects and     *)
(* handlers, and the Firestore calls of useFirestore.js.  A handler and    *)
(* the effects its state changes trigger form one action.                  *)
(***************************************************************************)
\* The result of a pure function before and after it has been applied.
NotRun == [done |-> FALSE]

Ran(v) == [done |-> TRUE, value |-> v]

NoUser == ""

Uids == {"u1"}

EmptyMap == << >>

EmptyMapping == [date |-> "", description |-> "", amount |-> "", debit |-> "", credit |-> ""]

NoTimer == [armed |-> FALSE]

\* The document users/{uid} before it is first written.
NoDoc == [exists |-> FALSE, categoryOverrides |-> EmptyMap, datasets |-> << >>]

\* The state after construction (useState initial values, null written ""), before
\* the first onAuthStateChanged callback, over a given content of Firestore.
AppConstructedOver(docs) ==
    /\ user = NoUser /\ authLoading = TRUE
    /\ transactions = << >> /\ view = "upload" /\ selectedMonth = ""
    /\ categoryOverrides = EmptyMap
    /\ csvHeaders = << >> /\ csvData = << >> /\ columnMapping = EmptyMapping
    /\ showMapper = FALSE
    /\ savedDatasets = << >> /\ activeDatasetName = "" /\ dataLoading = FALSE
    /\ saving = FALSE /\ uploadFileName = ""
    /\ monthlyDataMemo = << >> /\ forecastMemo = << >>
    /\ overrideTimer = NoTimer
    /\ loads = << >> /\ saveOps = << >>
    /\ firestore = docs
    /\ used = [auth |-> 0, files |-> 0, recats |-> 0, deletes |-> 0]
    /\ unsavedOverrides = {} /\ recategorized = EmptyMap

AppConstructed == AppConstructedOver([u \in Uids |-> NoDoc])

\* The bounds on what the user does in one behaviour: the changes of the
\* authentication state, the files handed to handleFile and the re-categorizations.
MaxAuthChanges == 3

MaxFiles == 2

MaxRecategorizations == 1

MaxDeletes == 1

\* The options of the category select the behaviours choose from
\* (Object.keys(CATEGORY_COLORS) has fourteen).
CategoryChoices == {"Shopping", "Travel"}

\* The text files the user has at hand, as the rows Papa.parse reads from them.
\* The Header Locator accepts the second row of "jan.csv" and no row of "feb.txt".
Files ==
    { [name |-> "jan.csv",
       rows |-> << <<"Example Bank statement">>,
                   <<"Date", "Description", "Amount">>,
                   <<"2024-01-05", "Corner Bakery", "-12.50">>,
                   <<"2024-02-20", "Shell Gas Station", "-40.00">> >>],
      [name |-> "feb.txt",
       rows |-> << <<"Date", "Name", "Money in">>,
                   <<"2024-02-03", "CORNER BAKERY", "7.00">> >>] }

RemoveAt(seq, i) == SubSeq(seq, 1, i - 1) \o SubSeq(seq, i + 1, Len(seq))

\* String(n).padStart(2, "0")
Pad2(n) == IF n < 10 THEN "0" \o ToString(n) ELSE ToString(n)

\* monthKey: `${d.getFullYear()}-${String(d.getMonth() + 1).padStart(2, "0")}`
monthKey(d) == ToString(d.year) \o "-" \o Pad2(d.month)

\* b.date - a.date of the descending sort, as a day number to compare.
DateOrd(d) == (d.year * 100 + d.month) * 100 + d.day

\* [...list].sort((a, b) => b.date - a.date)[0]: the sort is stable, so this is
\* the first of the Transactions with the latest date.
LatestFirst(list) ==
    list[CHOOSE i \in 1..Len(list) :
             /\ \A j \in 1..Len(list) : DateOrd(list[j].date) <= DateOrd(list[i].date)
             /\ \A j \in 1..(i - 1) : DateOrd(list[j].date) < DateOrd(list[i].date)]

\* file.name.replace(/\.[^/.]+$/, ""): the name without its last extension.
LastDot(name) ==
    LET dots == {i \in 1..Len(name) : CharAt(name, i) = "."}
    IN  IF dots = {} THEN 0 ELSE CHOOSE i \in dots : \A j \in dots : j <= i

stripExtension(name) ==
    LET i == LastDot(name)
    IN  IF i = 0 \/ i = Len(name)
           \/ \E j \in (i + 1)..Len(name) : CharAt(name, j) = "/"
        THEN name
        ELSE SubSeq(name, 1, i - 1)

\* Date.prototype.toISOString of a Date at midnight UTC.
toISOString(d) ==
    ToString(d.year) \o "-" \o Pad2(d.month) \o "-" \o Pad2(d.day) \o "T00:00:00.000Z"

\* new Date(t.date) of loadUserData on a stored ISO string.
reviveDate(iso) ==
    IF Len(iso) = 24 /\ SubSeq(iso, 11, 24) = "T00:00:00.000Z"
    THEN NewDate(SubSeq(iso, 1, 10))
    ELSE NewDate(iso)

\* transactions.map(t => ({ id, date: toISOString, description, amount, category }))
serialize(list) ==
    [k \in 1..Len(list) |-> [list[k] EXCEPT !.date = toISOString(list[k].date)]]

\* (data.datasets || []).map(ds => ({ ...ds, transactions: ... new Date(t.date) }))
reviveDatasets(datasets) ==
    [k \in 1..Len(datasets) |->
        [datasets[k] EXCEPT !.transactions =
            [n \in 1..Len(datasets[k].transactions) |->
                [datasets[k].transactions[n] EXCEPT
                    !.date = reviveDate(datasets[k].transactions[n].date)]]]]

\* loadUserData with no defaults: what is stored, whatever the read did.
loadUserDataStored(uid, ok) ==
    [categoryOverrides |-> firestore[uid].categoryOverrides,
     datasets |-> reviveDatasets(firestore[uid].datasets)]

\* What loadUserData resolves to: the fields of the document, or the defaults
\* when the document does not exist or the read throws.
loadUserData(uid, ok) ==
    IF ok /\ firestore[uid].exists
    THEN [categoryOverrides |-> firestore[uid].categoryOverrides,
          datasets |-> reviveDatasets(firestore[uid].datasets)]
    ELSE [categoryOverrides |-> EmptyMap, datasets |-> << >>]

\* setDoc(ref, { categoryOverrides }, { merge: true }): the keys of a non-empty
\* map are merged into the stored map; an empty map replaces the stored field.
mergeOverrides(stored, written) ==
    IF DOMAIN written = {} THEN EmptyMap
    ELSE [k \in DOMAIN stored \cup DOMAIN written |->
             IF k \in DOMAIN written THEN written[k] ELSE stored[k]]

\* The timer the effect on [categoryOverrides, user] leaves behind: the cleanup of
\* the previous run clears the old one, and a new one is set when a user is signed in.
armOverrideTimer(u, overrides) ==
    IF u = NoUser THEN NoTimer
    ELSE [armed |-> TRUE, uid |-> u, categoryOverrides |-> overrides]

(***************************************************************************)
(* Derived data.  Amounts are held in cents, so Math.round(v * 100) / 100  *)
(* of a sum of amounts is that sum.                                        *)
(***************************************************************************)

\* income: filtered.filter(t => t.amount > 0).reduce((s, t) => s + t.amount, 0)
RECURSIVE income(_)
income(list) ==
    IF list = << >> THEN 0
    ELSE (IF Head(list).amount > 0 THEN Head(list).amount ELSE 0) + income(Tail(list))

\* expenses: the sum of Math.abs(t.amount) over t.amount < 0
RECURSIVE expenses(_)
expenses(list) ==
    IF list = << >> THEN 0
    ELSE (IF Head(list).amount < 0 THEN Abs(Head(list).amount) ELSE 0)
         + expenses(Tail(list))

\* monthLabel: `${months[parseInt(m) - 1]} ${y}` of key.split("-")
MONTHS == <<"Jan", "Feb", "Mar", "Apr", "May", "Jun",
            "Jul", "Aug", "Sep", "Oct", "Nov", "Dec">>

HyphenAt(key) == CHOOSE i \in 1..Len(key) : CharAt(key, i) = "-"

monthLabel(key) ==
    LET y == SubSeq(key, 1, HyphenAt(key) - 1)
        m == SubSeq(key, HyphenAt(key) + 1, Len(key))
    IN MONTHS[DigitsValue(m)] \o " " \o y

\* a.localeCompare(b) < 0 on month keys: the first differing character
\* decides, the hyphen before every digit, a proper prefix first.
KEY_ORDER == "-0123456789"

KeyRank(c) == CHOOSE i \in 1..Len(KEY_ORDER) : CharAt(KEY_ORDER, i) = c

RECURSIVE localeCompareLess(_, _)
localeCompareLess(a, b) ==
    IF b = "" THEN FALSE
    ELSE IF a = "" THEN TRUE
    ELSE IF CharAt(a, 1) # CharAt(b, 1)
         THEN KeyRank(CharAt(a, 1)) < KeyRank(CharAt(b, 1))
         ELSE localeCompareLess(SubSeq(a, 2, Len(a)), SubSeq(b, 2, Len(b)))

\* One pass of the forEach of monthlyData with the sign of the amount kept.
addToMonthSigned(map, t) ==
    LET k == monthKey(t.date)
        d == IF k \in DOMAIN map THEN map[k]
             ELSE [month |-> k, income |-> 0, expenses |-> 0]
        e == IF t.amount > 0 THEN [d EXCEPT !.income = @ + t.amount]
             ELSE [d EXCEPT !.expenses = @ + t.amount]
    IN [x \in DOMAIN map \cup {k} |-> IF x = k THEN e ELSE map[x]]

\* One pass of the forEach of monthlyData: the month's entry, made on first
\* sight, takes the amount as income when it is positive and its absolute
\* value as expenses otherwise.
addToMonth(map, t) ==
    LET k == monthKey(t.date)
        d == IF k \in DOMAIN map THEN map[k]
             ELSE [month |-> k, income |-> 0, expenses |-> 0]
        e == IF t.amount > 0 THEN [d EXCEPT !.income = @ + t.amount]
             ELSE [d EXCEPT !.expenses = @ + Abs(t.amount)]
    IN [x \in DOMAIN map \cup {k} |-> IF x = k THEN e ELSE map[x]]

RECURSIVE groupByMonth(_, _, _)
groupByMonth(list, i, map) ==
    IF i > Len(list) THEN map
    ELSE groupByMonth(list, i + 1, addToMonth(map, list[i]))

\* Object.values(map).sort((a, b) => a.month.localeCompare(b.month)); the
\* keys of the map are distinct, so the order of insertion decides nothing.
RECURSIVE sortByMonth(_)
sortByMonth(map) ==
    IF DOMAIN map = {} THEN << >>
    ELSE LET k == CHOOSE k \in DOMAIN map :
                      \A o \in DOMAIN map \ {k} : localeCompareLess(k, o)
         IN <<map[k]>> \o sortByMonth([x \in DOMAIN map \ {k} |-> map[x]])

\* The closing map of monthlyData: label and net added to each entry.
monthlyEntry(d) ==
    [month |-> d.month, label |-> monthLabel(d.month),
     income |-> d.income, expenses |-> d.expenses, net |-> d.income - d.expenses]

monthlyData(list) ==
    LET sorted == sortByMonth(groupByMonth(list, 1, EmptyMap))
    IN [k \in 1..Len(sorted) |-> monthlyEntry(sorted[k])]

\* The forEach of categoryBreakdown without its filter: every amount counts.
spendingByCategoryUnfiltered(entries, t) ==
    IF \E k \in 1..Len(entries) : entries[k].name = t.category
    THEN [k \in 1..Len(entries) |->
             IF entries[k].name = t.category
             THEN [entries[k] EXCEPT !.value = @ + Abs(t.amount)]
             ELSE entries[k]]
    ELSE Append(entries, [name |-> t.category, value |-> Abs(t.amount)])

\* One pass of the forEach of categoryBreakdown over the entries of map, kept
\* in the order Object.entries lists them (the order the keys were first
\* written): map[c] = (map[c] || 0) + Math.abs(t.amount), for t.amount < 0.
spendingByCategory(entries, t) ==
    IF ~(t.amount < 0) THEN entries
    ELSE IF \E k \in 1..Len(entries) : entries[k].name = t.category
    THEN [k \in 1..Len(entries) |->
             IF entries[k].name = t.category
             THEN [entries[k] EXCEPT !.value = @ + Abs(t.amount)]
             ELSE entries[k]]
    ELSE Append(entries, [name |-> t.category, value |-> Abs(t.amount)])

RECURSIVE groupByCategory(_, _, _)
groupByCategory(list, i, entries) ==
    IF i > Len(list) THEN entries
    ELSE groupByCategory(list, i + 1, spendingByCategory(entries, list[i]))

\* .sort((a, b) => b.value - a.value): stable, so equal values keep the order
\* of the entries.
RECURSIVE sortByValueDescending(_)
sortByValueDescending(entries) ==
    IF entries = << >> THEN << >>
    ELSE LET k == CHOOSE k \in 1..Len(entries) :
                      /\ \A j \in 1..Len(entries) : entries[j].value <= entries[k].value
                      /\ \A j \in 1..(k - 1) : entries[j].value < entries[k].value
         IN <<entries[k]>> \o sortByValueDescending(RemoveAt(entries, k))

categoryBreakdown(list) ==
    sortByValueDescending(groupByCategory(list, 1, << >>))

\* A rounding of n / d to the nearest ten.
MathRoundToTen(n, d) == 10 * ((2 * n + 10 * d) \div (20 * d))

\* Math.round(n / d) for d > 0: the nearest integer, a half going up.
MathRound(n, d) == (2 * n + d) \div (2 * d)

Max(a, b) == IF a > b THEN a ELSE b

\* The months averaged with no slice: all of them.
recentAll(monthly) == monthly

\* monthlyData.slice(-3)
recent(monthly) == SubSeq(monthly, Max(1, Len(monthly) - 2), Len(monthly))

RECURSIVE sumOf(_, _)
sumOf(list, field) ==
    IF list = << >> THEN 0 ELSE Head(list)[field] + sumOf(Tail(list), field)

\* The year of a projected month with no carry.
projectedYearSame(y, m, i) == y

\* ny = y + Math.floor((m - 1 + i) / 12)
projectedYear(y, m, i) == y + ((m - 1 + i) \div 12)

\* nm = ((m - 1 + i) % 12) + 1
projectedMonth(m, i) == ((m - 1 + i) % 12) + 1

\* The i-th point pushed by the loop of forecast.  The averages are in cents
\* and Math.round takes them to whole units, a hundred cents each.
forecastPoint(monthly, i) ==
    LET months == recent(monthly)
        last == monthly[Len(monthly)]
        y == DigitsValue(SubSeq(last.month, 1, HyphenAt(last.month) - 1))
        m == DigitsValue(SubSeq(last.month, HyphenAt(last.month) + 1, Len(last.month)))
        key == ToString(projectedYear(y, m, i)) \o "-" \o Pad2(projectedMonth(m, i))
    IN  [month |-> key, label |-> monthLabel(key),
         income |-> 100 * MathRound(sumOf(months, "income"), 100 * Len(months)),
         expenses |-> 100 * MathRound(sumOf(months, "expenses"), 100 * Len(months)),
         net |-> 100 * MathRound(sumOf(months, "income") - sumOf(months, "expenses"),
                                 100 * Len(months)),
         forecast |-> TRUE]

forecast(monthly) ==
    IF Len(monthly) < 2 THEN << >>
    ELSE [i \in 1..3 |-> forecastPoint(monthly, i)]

\* useMemo with no dependency: the first value is kept.
useMemoOnce(memo, fresh, changed) == memo

\* useMemo(fn, deps): the value of the last render, or a fresh one when a
\* dependency is no longer the one of the last render.
useMemo(memo, fresh, changed) == IF changed THEN fresh ELSE memo

\* The render that follows a change of state: monthlyData depends on
\* [transactions] and forecast on [monthlyData].  A setter that stores an
\* equal list makes the callback run again with the same result.
render ==
    /\ monthlyDataMemo' = useMemo(monthlyDataMemo, monthlyData(transactions'),
                                  transactions' # transactions)
    /\ forecastMemo' = useMemo(forecastMemo, forecast(monthlyDataMemo'),
                               monthlyDataMemo' # monthlyDataMemo)


\* The screens of the render function.
Ready == ~authLoading /\ user # NoUser /\ ~dataLoading

UploadScreen == Ready /\ view = "upload" /\ ~showMapper

MapperScreen == Ready /\ showMapper

MainScreen == Ready /\ ~showMapper /\ view # "upload"

\* The callback of onAuthStateChanged with the uid of the user now signed in
\* (NoUser for null), and the effects on [user] and [categoryOverrides, user] it
\* triggers.  A sign-in follows a signed-out state.
onAuthStateChanged(u) ==
    /\ authLoading \/ u # user
    /\ u # NoUser => user = NoUser
    /\ used.auth < MaxAuthChanges
    /\ used' = [used EXCEPT !.auth = @ + 1]
    /\ user' = u
    /\ authLoading' = FALSE
    /\ IF u = user
       THEN UNCHANGED <<stateVars, overrideTimer, loads, recategorized>>
       ELSE IF u = NoUser
       THEN /\ transactions' = << >>
            /\ categoryOverrides' = EmptyMap
            /\ savedDatasets' = << >>
            /\ activeDatasetName' = ""
            /\ view' = "upload"
            /\ overrideTimer' = NoTimer
            /\ recategorized' = EmptyMap
            /\ UNCHANGED <<selectedMonth, csvHeaders, csvData, columnMapping, showMapper,
                           dataLoading, saving, uploadFileName, loads>>
       ELSE /\ dataLoading' = TRUE
            /\ loads' = Append(loads, u)
            /\ overrideTimer' = armOverrideTimer(u, categoryOverrides)
            /\ UNCHANGED <<transactions, view, selectedMonth, categoryOverrides, csvHeaders,
                           csvData, columnMapping, showMapper, savedDatasets,
                           activeDatasetName, saving, uploadFileName, recategorized>>
    /\ UNCHANGED <<harnessVars, saveOps, firestore, unsavedOverrides>>
    /\ render

\* The then-callback of the i-th loadUserData call in flight, with the effect on
\* [categoryOverrides, user] it triggers.
loadUserDataThen(i, ok) ==
    /\ i \in 1..Len(loads)
    /\ LET data == loadUserData(loads[i], ok)
       IN  /\ categoryOverrides' = data.categoryOverrides
           /\ savedDatasets' = data.datasets
           /\ dataLoading' = FALSE
           /\ overrideTimer' = armOverrideTimer(user, data.categoryOverrides)
    /\ loads' = RemoveAt(loads, i)
    /\ UNCHANGED <<harnessVars, used, user, authLoading, transactions, view, selectedMonth,
                   csvHeaders, csvData, columnMapping, showMapper, activeDatasetName,
                   saving, uploadFileName, saveOps, firestore,
                   unsavedOverrides, recategorized>>
    /\ render

\* The debounce timer fires: saveCategoryOverrides(uid, categoryOverrides) with
\* what the callback closed over; a failed write is swallowed.
overrideTimerFires(ok) ==
    /\ overrideTimer.armed
    /\ firestore' =
           IF ok
           THEN [firestore EXCEPT ![overrideTimer.uid] =
                    [@ EXCEPT !.exists = TRUE,
                              !.categoryOverrides =
                                  mergeOverrides(@, overrideTimer.categoryOverrides)]]
           ELSE firestore
    /\ unsavedOverrides' = unsavedOverrides \
           {<<overrideTimer.uid, k>> : k \in DOMAIN overrideTimer.categoryOverrides}
    /\ overrideTimer' = NoTimer
    /\ UNCHANGED <<harnessVars, used, user, authLoading, stateVars, loads, saveOps,
                   recategorized>>
    /\ render

\* Papa.parse(text, { header: true, skipEmptyLines: true }).data: the rows after the
\* first, each keyed by the cells of the first row.
papaParseWithHeader(rows) ==
    IF rows = << >> THEN << >>
    ELSE LET rest == SelectSeq(Tail(rows), LAMBDA r : r # << >> /\ r # <<"">>)
         IN  [k \in 1..Len(rest) |-> recordOf(rows[1], rest[k])]

\* Object.keys(json[0]): the distinct header names in column order.
objectKeys(headers) ==
    SelectSeq([j \in 1..Len(headers) |->
                  IF \E k \in 1..(j - 1) : headers[k] = headers[j] THEN "" ELSE headers[j]],
              LAMBDA h : h # "")

\* What textReader.onload computes from the text: the header row is looked for, with
\* the first row as the fallback; headers, records and the guessed mapping.
readText(rows) ==
    LET detected == findHeaderRowInCSV(rows)
        json     == IF detected # null THEN detected.data ELSE papaParseWithHeader(rows)
        headers  == IF detected # null THEN detected.headers
                    ELSE IF Len(json) > 0 THEN objectKeys(rows[1])
                    ELSE << >>
    IN  [headers |-> headers, json |-> json, guessed |-> guessMapping(headers)]

\* readText of each of the files at hand.
FilesRead == [file \in Files |-> readText(file.rows)]

\* handleFile on a text file, with the onload callback of the FileReader it starts:
\* the name is kept, and the mapper is shown when the file has records.
handleFile(file) ==
    /\ UploadScreen
    /\ used.files < MaxFiles
    /\ used' = [used EXCEPT !.files = @ + 1]
    /\ uploadFileName' = stripExtension(file.name)
    /\ LET read == FilesRead[file]
       IN  IF Len(read.json) > 0
           THEN /\ csvHeaders' = read.headers
                /\ csvData' = read.json
                /\ columnMapping' = read.guessed
                /\ showMapper' = TRUE
           ELSE UNCHANGED <<csvHeaders, csvData, columnMapping, showMapper>>
    /\ UNCHANGED <<harnessVars, user, authLoading, transactions, view, selectedMonth,
                   categoryOverrides, savedDatasets, activeDatasetName, dataLoading,
                   saving, overrideTimer, loads, saveOps, firestore,
                   unsavedOverrides, recategorized>>
    /\ render

\* The onChange of a select of the mapper screen: the role takes the chosen
\* header, or none with the option "Select".
setColumnMapping(key, value) ==
    /\ MapperScreen
    /\ value = "" \/ \E j \in 1..Len(csvHeaders) : csvHeaders[j] = value
    /\ value # columnMapping[key]
    /\ columnMapping' = [columnMapping EXCEPT ![key] = value]
    /\ UNCHANGED <<harnessVars, used, user, authLoading, transactions, view,
                   selectedMonth, categoryOverrides, csvHeaders, csvData, showMapper, savedDatasets,
                   activeDatasetName, dataLoading, saving, uploadFileName,
                   overrideTimer, loads, saveOps, firestore, unsavedOverrides,
                   recategorized>>
    /\ render

\* The Back button of the mapper screen.
mapperBack ==
    /\ MapperScreen
    /\ showMapper' = FALSE
    /\ csvHeaders' = << >>
    /\ csvData' = << >>
    /\ columnMapping' = EmptyMapping
    /\ UNCHANGED <<harnessVars, used, user, authLoading, transactions, view, selectedMonth,
                   categoryOverrides, savedDatasets, activeDatasetName, dataLoading,
                   saving, uploadFileName, overrideTimer, loads, saveOps,
                   firestore, unsavedOverrides, recategorized>>
    /\ render

\* The disabled attribute with no test of the description.
analyzeDisabledWithoutDescription ==
    \/ columnMapping.date = ""
    \/ (columnMapping.amount = "" /\ columnMapping.debit = "" /\ columnMapping.credit = "")

\* The disabled attribute of the Analyze button.
analyzeDisabled ==
    \/ columnMapping.date = ""
    \/ columnMapping.description = ""
    \/ (columnMapping.amount = "" /\ columnMapping.debit = "" /\ columnMapping.credit = "")

\* uploadFileName || `Upload ${new Date().toLocaleDateString()}`, for a fixed day.
datasetName == IF uploadFileName # "" THEN uploadFileName ELSE "Upload 1/1/2024"

\* applyMapping, from the Analyze button: the records are normalized and shown, and
\* saveDataset is called for the signed-in user.
applyMapping ==
    /\ MapperScreen
    /\ ~analyzeDisabled
    /\ LET parsed == normalize(csvData, columnMapping, categoryOverrides)
       IN  /\ transactions' = parsed
           /\ selectedMonth' = IF Len(parsed) > 0 THEN monthKey(LatestFirst(parsed).date)
                               ELSE selectedMonth
           /\ saveOps' = Append(saveOps, [uid |-> user, name |-> datasetName,
                                          transactions |-> parsed, phase |-> "read",
                                          existing |-> << >>])
    /\ showMapper' = FALSE
    /\ view' = "dashboard"
    /\ activeDatasetName' = datasetName
    /\ saving' = TRUE
    /\ UNCHANGED <<harnessVars, used, user, authLoading, categoryOverrides, csvHeaders, csvData,
                   columnMapping, savedDatasets, dataLoading, uploadFileName,
                   overrideTimer, loads, firestore, unsavedOverrides,
                   recategorized>>
    /\ render

\* The list with the dataset added at the end, whatever names it holds.
replaceOrAppendAlways(list, ds) == Append(list, ds)

\* The list with the dataset of that name replaced, or the dataset added at the end.
replaceOrAppend(list, ds) ==
    IF \E k \in 1..Len(list) : list[k].name = ds.name
    THEN LET idx == CHOOSE k \in 1..Len(list) :
                        list[k].name = ds.name /\ \A j \in 1..(k - 1) : list[j].name # ds.name
         IN  [list EXCEPT ![idx] = ds]
    ELSE Append(list, ds)

\* The then-callback of applyMapping for the i-th saveDataset call in flight.
savedDatasetsAfter(i) ==
    replaceOrAppend(savedDatasets,
                    [name |-> saveOps[i].name, transactions |-> saveOps[i].transactions])

\* saveDataset up to its setDoc: the stored datasets are read and the new one is put
\* in its place.  A read that throws is swallowed, and the promise resolves: the
\* then-callback of applyMapping runs.
saveDatasetRead(i, ok) ==
    /\ i \in 1..Len(saveOps)
    /\ saveOps[i].phase = "read"
    /\ IF ok
       THEN /\ saveOps' = [saveOps EXCEPT ![i] =
                   [saveOps[i] EXCEPT
                       !.phase = "write",
                       !.existing = replaceOrAppend(
                           firestore[saveOps[i].uid].datasets,
                           [name |-> saveOps[i].name,
                            transactions |-> serialize(saveOps[i].transactions)])]]
            /\ UNCHANGED <<savedDatasets, saving>>
       ELSE /\ saveOps' = RemoveAt(saveOps, i)
            /\ savedDatasets' = savedDatasetsAfter(i)
            /\ saving' = FALSE
    /\ UNCHANGED <<harnessVars, used, user, authLoading, transactions, view, selectedMonth,
                   categoryOverrides, csvHeaders, csvData, columnMapping, showMapper,
                   activeDatasetName, dataLoading, uploadFileName, overrideTimer,
                   loads, firestore, unsavedOverrides, recategorized>>
    /\ render

\* The setDoc of saveDataset (a write that throws is swallowed) and the then-callback
\* of applyMapping that follows it.
saveDatasetThen(i, ok) ==
    /\ i \in 1..Len(saveOps)
    /\ saveOps[i].phase = "write"
    /\ firestore' =
           IF ok
           THEN [firestore EXCEPT ![saveOps[i].uid] =
                    [@ EXCEPT !.exists = TRUE, !.datasets = saveOps[i].existing]]
           ELSE firestore
    /\ savedDatasets' = savedDatasetsAfter(i)
    /\ saving' = FALSE
    /\ saveOps' = RemoveAt(saveOps, i)
    /\ UNCHANGED <<harnessVars, used, user, authLoading, transactions, view, selectedMonth,
                   categoryOverrides, csvHeaders, csvData, columnMapping, showMapper,
                   activeDatasetName, dataLoading, uploadFileName, overrideTimer,
                   loads, unsavedOverrides, recategorized>>
    /\ render

\* loadSavedDataset(ds), from a row of the saved datasets on the upload screen.
loadSavedDataset(k) ==
    /\ UploadScreen
    /\ k \in 1..Len(savedDatasets)
    /\ transactions' = savedDatasets[k].transactions
    /\ activeDatasetName' = savedDatasets[k].name
    /\ view' = "dashboard"
    /\ selectedMonth' = IF Len(savedDatasets[k].transactions) > 0
                        THEN monthKey(LatestFirst(savedDatasets[k].transactions).date)
                        ELSE selectedMonth
    /\ UNCHANGED <<harnessVars, used, user, authLoading, categoryOverrides, csvHeaders,
                   csvData, columnMapping, showMapper, savedDatasets, dataLoading,
                   saving, uploadFileName, overrideTimer, loads, saveOps, firestore,
                   unsavedOverrides, recategorized>>
    /\ render

\* prev.filter(d => d.name !== dsName)
withoutDataset(list, dsName) == SelectSeq(list, LAMBDA d : d.name # dsName)

\* handleDeleteDataset(ds.name), from a row of the saved datasets on the upload
\* screen; deleteDataset starts with its getDoc in flight.
handleDeleteDataset(k) ==
    /\ UploadScreen
    /\ k \in 1..Len(savedDatasets)
    /\ used.deletes < MaxDeletes
    /\ used' = [used EXCEPT !.deletes = @ + 1]
    /\ savedDatasets' = withoutDataset(savedDatasets, savedDatasets[k].name)
    /\ saveOps' = Append(saveOps, [uid |-> user, name |-> savedDatasets[k].name,
                                   phase |-> "deleteRead", existing |-> << >>])
    /\ IF activeDatasetName = savedDatasets[k].name
       THEN /\ transactions' = << >>
            /\ activeDatasetName' = ""
            /\ view' = "upload"
       ELSE UNCHANGED <<transactions, activeDatasetName, view>>
    /\ UNCHANGED <<harnessVars, user, authLoading, selectedMonth, categoryOverrides,
                   csvHeaders, csvData, columnMapping, showMapper, dataLoading, saving,
                   uploadFileName, overrideTimer, loads, firestore, unsavedOverrides,
                   recategorized>>
    /\ render

\* The getDoc of deleteDataset: the stored datasets without the named one are
\* kept for the write; with no document, or when the read throws, the call ends.
deleteDatasetRead(i, ok) ==
    /\ i \in 1..Len(saveOps)
    /\ saveOps[i].phase = "deleteRead"
    /\ saveOps' =
           IF ok /\ firestore[saveOps[i].uid].exists
           THEN [saveOps EXCEPT ![i] =
                    [saveOps[i] EXCEPT
                        !.phase = "deleteWrite",
                        !.existing = withoutDataset(firestore[saveOps[i].uid].datasets,
                                                    saveOps[i].name)]]
           ELSE RemoveAt(saveOps, i)
    /\ UNCHANGED <<harnessVars, used, user, authLoading, transactions, view, selectedMonth,
                   categoryOverrides, csvHeaders, csvData, columnMapping, showMapper,
                   savedDatasets, activeDatasetName, dataLoading, saving, uploadFileName,
                   overrideTimer, loads, firestore, unsavedOverrides, recategorized>>
    /\ render

\* The setDoc of deleteDataset; a write that throws is swallowed.
deleteDatasetThen(i, ok) ==
    /\ i \in 1..Len(saveOps)
    /\ saveOps[i].phase = "deleteWrite"
    /\ firestore' =
           IF ok
           THEN [firestore EXCEPT ![saveOps[i].uid] =
                    [@ EXCEPT !.datasets = saveOps[i].existing]]
           ELSE firestore
    /\ saveOps' = RemoveAt(saveOps, i)
    /\ UNCHANGED <<harnessVars, used, user, authLoading, transactions, view, selectedMonth,
                   categoryOverrides, csvHeaders, csvData, columnMapping, showMapper,
                   savedDatasets, activeDatasetName, dataLoading, saving, uploadFileName,
                   overrideTimer, loads, unsavedOverrides, recategorized>>
    /\ render

\* The navigation buttons of the main screen.
NavKeys == {"dashboard", "transactions", "budget", "forecast"}

setView(key) ==
    /\ MainScreen
    /\ key # view
    /\ view' = key
    /\ UNCHANGED <<harnessVars, used, user, authLoading, transactions, selectedMonth,
                   categoryOverrides, csvHeaders, csvData, columnMapping, showMapper,
                   savedDatasets, activeDatasetName, dataLoading, saving, uploadFileName,
                   overrideTimer, loads, saveOps, firestore,
                   unsavedOverrides, recategorized>>
    /\ render

\* The New CSV button of the main screen.
newCsv ==
    /\ MainScreen
    /\ view' = "upload"
    /\ transactions' = << >>
    /\ csvData' = << >>
    /\ activeDatasetName' = ""
    /\ UNCHANGED <<harnessVars, used, user, authLoading, selectedMonth, categoryOverrides,
                   csvHeaders, columnMapping, showMapper, savedDatasets, dataLoading,
                   saving, uploadFileName, overrideTimer, loads, saveOps,
                   firestore, unsavedOverrides, recategorized>>
    /\ render

\* The Transactions the table shows: those of the selected month, or all of them.
filtered ==
    IF selectedMonth # ""
    THEN SelectSeq(transactions, LAMBDA t : monthKey(t.date) = selectedMonth)
    ELSE transactions

\* The map with one key written: { ...o, [key]: newCat }
withOverride(overrides, key, newCat) ==
    [k \in DOMAIN overrides \cup {key} |-> IF k = key THEN newCat ELSE overrides[k]]

\* prev.find(t => t.id === id): the position of the first Transaction with the
\* id, 0 when there is none.
findById(prev, id) ==
    IF \E k \in 1..Len(prev) : prev[k].id = id
    THEN CHOOSE k \in 1..Len(prev) :
             /\ prev[k].id = id
             /\ \A j \in 1..(k - 1) : prev[j].id # id
    ELSE 0

\* A map that gives newCat to every Transaction of the description of the one
\* with the id.
withCategoryOfDescription(prev, id, newCat) ==
    [k \in 1..Len(prev) |->
        IF findById(prev, id) # 0
           /\ prev[k].description = prev[findById(prev, id)].description
        THEN [prev[k] EXCEPT !.category = newCat]
        ELSE prev[k]]

\* prev.map(t => t.id === id ? { ...t, category: newCat } : t)
withCategory(prev, id, newCat) ==
    [k \in 1..Len(prev) |->
        IF prev[k].id = id THEN [prev[k] EXCEPT !.category = newCat] ELSE prev[k]]

\* The override map after the updater: written under the lower-cased description
\* of the target when there is one.
overridesAfterUpdate(prev, overrides, id, newCat) ==
    IF findById(prev, id) = 0 THEN overrides
    ELSE withOverride(overrides, toLowerCase(prev[findById(prev, id)].description),
                      newCat)

\* An updateCategory that writes the new category into the saved entry of the
\* active dataset as well.
updateCategoryOfSaved(id, newCat) ==
    /\ MainScreen
    /\ view = "transactions"
    /\ used.recats < MaxRecategorizations
    /\ used' = [used EXCEPT !.recats = @ + 1]
    /\ \E k \in 1..Len(filtered) : filtered[k].id = id
    /\ LET key  == toLowerCase(transactions[findById(transactions, id)].description)
           next == overridesAfterUpdate(transactions, categoryOverrides, id, newCat)
       IN  /\ categoryOverrides' = next
           /\ overrideTimer' = armOverrideTimer(user, next)
           /\ unsavedOverrides' = unsavedOverrides \cup {<<user, key>>}
           /\ recategorized' = withOverride(recategorized, key, newCat)
    /\ transactions' = withCategory(transactions, id, newCat)
    /\ savedDatasets' = [k \in 1..Len(savedDatasets) |->
           IF savedDatasets[k].name = activeDatasetName
           THEN [savedDatasets[k] EXCEPT
                    !.transactions = withCategory(@, id, newCat)]
           ELSE savedDatasets[k]]
    /\ UNCHANGED <<harnessVars, user, authLoading, view, selectedMonth, csvHeaders,
                   csvData, columnMapping, showMapper, activeDatasetName,
                   dataLoading, saving, uploadFileName, loads, saveOps,
                   firestore>>
    /\ render

\* updateCategory(id, newCat), from the category select of a row of the table, with
\* the effect on [categoryOverrides, user] it triggers.
updateCategory(id, newCat) ==
    /\ MainScreen
    /\ view = "transactions"
    /\ used.recats < MaxRecategorizations
    /\ used' = [used EXCEPT !.recats = @ + 1]
    /\ \E k \in 1..Len(filtered) : filtered[k].id = id
    /\ LET key  == toLowerCase(transactions[findById(transactions, id)].description)
           next == overridesAfterUpdate(transactions, categoryOverrides, id, newCat)
       IN  /\ categoryOverrides' = next
           /\ overrideTimer' = armOverrideTimer(user, next)
           /\ unsavedOverrides' = unsavedOverrides \cup {<<user, key>>}
           /\ recategorized' = withOverride(recategorized, key, newCat)
    /\ transactions' = withCategory(transactions, id, newCat)
    /\ UNCHANGED <<harnessVars, user, authLoading, view, selectedMonth, csvHeaders,
                   csvData, columnMapping, showMapper, savedDatasets, activeDatasetName,
                   dataLoading, saving, uploadFileName, loads, saveOps,
                   firestore>>
    /\ render

\* Whether a read of the document by loadUserData succeeds, and whether the other
\* calls to Firestore do.
LoadOutcomes == BOOLEAN

TimerOutcomes == BOOLEAN

SaveOutcomes == BOOLEAN

Init ==
    /\ input = "" /\ output = NotRun
    /\ AppConstructed

Next ==
    \/ \E u \in Uids \cup {NoUser} : onAuthStateChanged(u)
    \/ \E i \in 1..Len(loads), ok \in LoadOutcomes : loadUserDataThen(i, ok)
    \/ \E ok \in TimerOutcomes : overrideTimerFires(ok)
    \/ \E file \in Files : handleFile(file)
    \/ mapperBack
    \/ applyMapping
    \/ \E i \in 1..Len(saveOps), ok \in SaveOutcomes : saveDatasetRead(i, ok)
    \/ \E i \in 1..Len(saveOps), ok \in SaveOutcomes : saveDatasetThen(i, ok)
    \/ \E k \in 1..Len(savedDatasets) : loadSavedDataset(k)
    \/ \E k \in 1..Len(savedDatasets) : handleDeleteDataset(k)
    \/ \E i \in 1..Len(saveOps), ok \in SaveOutcomes : deleteDatasetRead(i, ok)
    \/ \E i \in 1..Len(saveOps), ok \in SaveOutcomes : deleteDatasetThen(i, ok)
    \/ \E key \in NavKeys : setView(key)
    \/ newCsv
    \/ \E k \in 1..Len(transactions), newCat \in CategoryChoices :
           updateCategory(transactions[k].id, newCat)

Spec == Init /\ [][Next]_vars

\* C4: after updateCategory(id, c) on a Transaction with description d, every later
\* applyMapping of the same session gives category c to every record whose
\* lower-cased description is that of d, until a later re-categorization writes
\* the same key (recategorized holds the session's latest c of each key).
C4_RecategorizationAppliesToLaterImports ==
    [][applyMapping =>
          \A k \in 1..Len(transactions') :
              LET key == toLowerCase(transactions'[k].description)
              IN  key \in DOMAIN recategorized =>
                      transactions'[k].category = recategorized[key]]_vars

\* C5: every override entry written by updateCategory while a user is signed in is
\* eventually passed to saveCategoryOverrides for that uid.  The callback of the
\* debounce timer is the only caller of saveCategoryOverrides, so an entry not yet
\* passed has to be held by a pending timer of its uid.
C5_UnsavedOverrideIsScheduled ==
    \A e \in unsavedOverrides :
        /\ overrideTimer.armed
        /\ overrideTimer.uid = e[1]
        /\ e[2] \in DOMAIN overrideTimer.categoryOverrides

(***************************************************************************)
(* Specification SpecCategorize: categorize applied to one description.    *)
(***************************************************************************)
\* Every keyword of the rule table, as a description of its own.
KeywordDescriptions == {FlatIndex[i].keyword : i \in 1..Len(FlatIndex)}

\* Words joined pairwise into descriptions in which two keywords occur.
PairWords == {"gas", "uber", "amazon", "netflix", "payroll", "coffee", "target",
              "deposit", "Rent", "CVS", "shell", "bp"}

PairDescriptions == {a \o " " \o b : a \in PairWords, b \in PairWords}

\* Bank-statement descriptions, among them some no keyword occurs in.
PlainDescriptions == {"", "Acme Corp", "ACME CORP", "Unknown", "constructor",
                      "Food Lion #42", "UBER EATS 8005928996", "Amazon Prime Video",
                      "Shell Gas Station", "GAS BILL PAYMENT", "Direct Deposit - Payroll",
                      "Apple Music", "APPLE STORE #R102", "Transfer In", "Check 1042"}

Descriptions == KeywordDescriptions \cup PairDescriptions \cup PlainDescriptions


InitCategorize == input \in Descriptions /\ output = NotRun /\ AppConstructed

CategorizeStep ==
    /\ ~output.done
    /\ output' = Ran(categorize(input))
    /\ UNCHANGED <<input, appVars>>

SpecCategorize == InitCategorize /\ [][CategorizeStep]_vars

\* The positions, in rule-table order, of the keywords occurring in d.
MatchingKeywords(d) ==
    {i \in 1..Len(FlatIndex) : includes(toLowerCase(d), FlatIndex[i].keyword)}

\* The longest of them; among the longest, the earliest of the rule table.
LongestEarliest(d) ==
    CHOOSE i \in MatchingKeywords(d) :
        \A j \in MatchingKeywords(d) :
            \/ Len(FlatIndex[i].keyword) > Len(FlatIndex[j].keyword)
            \/ Len(FlatIndex[i].keyword) = Len(FlatIndex[j].keyword) /\ i <= j

\* C9: categorize returns the category of the longest keyword that occurs in the
\* lower-cased description (the earliest in rule-table order among keywords of
\* equal length), and "Other" when no keyword occurs in it.
C9_LongestKeywordWins ==
    output.done =>
        output.value = IF MatchingKeywords(input) = {} THEN "Other"
                       ELSE FlatIndex[LongestEarliest(input)].category

\* C9 witness: categorize has run on a description in which a longer and a
\* shorter keyword of different categories both occur.
C9_Witness ==
    /\ output.done
    /\ \E i, j \in MatchingKeywords(input) :
          /\ Len(FlatIndex[i].keyword) > Len(FlatIndex[j].keyword)
          /\ FlatIndex[i].category # FlatIndex[j].category
          /\ output.value = FlatIndex[i].category


(***************************************************************************)
(* Specification SpecNormalize: the normalizer applied to one batch of     *)
(* header-keyed records under one column mapping and one override map.     *)
(***************************************************************************)
MaxRecords == 2

Rec(date, description, amount, debit, credit) ==
    [h \in {"Date", "Description", "Amount", "Debit", "Credit"} |->
        CASE h = "Date" -> date
          [] h = "Description" -> description
          [] h = "Amount" -> amount
          [] h = "Debit" -> debit
          [] OTHER -> credit]

\* Records of a statement with a single Amount column beside Debit and Credit
\* columns: a debit only, a credit only, both blank, both filled, an unreadable
\* date, a blank date, text in the amount cell, a negative credit.
RecordPool == {
    Rec("2024-01-05", "Acme Corp", "$1,234.56", "50.00", ""),
    Rec("2024-01-20", "Shell Gas Station", "(45.00)", "", "120.00"),
    Rec("2024-02-03", "", "", "", ""),
    Rec("n/a", "ACME CORP", "12.00", "5.00", "7.00"),
    Rec("2024-12-15", "constructor", "abc", "30.00", "75.50"),
    Rec("", "Netflix", "-15.49", "", ""),
    Rec("2024-03-01", "acme corp", "0.00", "(20.00)", "-5.00") }

RECURSIVE SeqsUpTo(_, _)
SeqsUpTo(S, n) ==
    IF n = 0 THEN {<< >>}
    ELSE SeqsUpTo(S, n - 1) \cup
         {Append(q, x) : q \in {p \in SeqsUpTo(S, n - 1) : Len(p) = n - 1}, x \in S}

\* Each role unmapped or mapped to the column of its name.
RoleMappings ==
    [date : {"", "Date"}, description : {"", "Description"},
     amount : {"", "Amount"}, debit : {"", "Debit"}, credit : {"", "Credit"}]

\* Override maps as the application writes them: lower-cased descriptions to
\* names of the category select.
OverrideMaps == {
    EmptyMap,
    [k \in {"acme corp"} |-> "Shopping"],
    [k \in {"acme corp", "shell gas station", "unknown"} |->
        CASE k = "acme corp" -> "Shopping"
          [] k = "shell gas station" -> "Travel"
          [] OTHER -> "Income"] }

InitNormalize ==
    /\ input \in [csvData : SeqsUpTo(RecordPool, MaxRecords),
                  columnMapping : RoleMappings,
                  categoryOverrides : OverrideMaps]
    /\ output = NotRun
    /\ AppConstructed

NormalizeStep ==
    /\ ~output.done
    /\ output' = Ran(normalize(input.csvData, input.columnMapping, input.categoryOverrides))
    /\ UNCHANGED <<input, appVars>>

SpecNormalize == InitNormalize /\ [][NormalizeStep]_vars

\* The Transactions of the output whose id is the 0-based position i.
OutputOf(i) == {k \in 1..Len(output.value) : output.value[k].id = i}

DateCell(row) == Cell(row, input.columnMapping.date)
AmountCell(row) == Cell(row, input.columnMapping.amount)
DebitCell(row) == Cell(row, input.columnMapping.debit)
CreditCell(row) == Cell(row, input.columnMapping.credit)

NoAmountPath ==
    /\ input.columnMapping.amount = ""
    /\ input.columnMapping.debit = ""
    /\ input.columnMapping.credit = ""

DebitCreditPath ==
    /\ input.columnMapping.amount = ""
    /\ input.columnMapping.debit # "" \/ input.columnMapping.credit # ""

\* C1: with no amount column mapped and debit and/or credit mapped, a record
\* whose debit cell and credit cell are both blank produces no Transaction.
C1_BlankDebitCreditDropped ==
    (output.done /\ DebitCreditPath) =>
        \A i \in 1..Len(input.csvData) :
            (DebitCell(input.csvData[i]) = "" /\ CreditCell(input.csvData[i]) = "")
                => OutputOf(i - 1) = {}

\* C2: for every record with a parseable date, the amount is the parsed amount
\* cell when an amount column is mapped; otherwise, when debit and/or credit is
\* mapped, +credit when the parsed credit is > 0 and else -|parsed debit|.
C2_AmountResolution ==
    output.done =>
        \A i \in 1..Len(input.csvData) :
            LET row == input.csvData[i]
                cr  == parseAmount(CreditCell(row))
                db  == parseAmount(DebitCell(row))
            IN  (parseDate(DateCell(row)) # null /\ ~NoAmountPath) =>
                    /\ OutputOf(i - 1) # {}
                    /\ \A k \in OutputOf(i - 1) :
                          output.value[k].amount =
                              IF input.columnMapping.amount # ""
                              THEN parseAmount(AmountCell(row))
                              ELSE IF cr > 0 THEN cr ELSE -Abs(db)
                    /\ (DebitCreditPath /\ DebitCell(row) = "50.00" /\ CreditCell(row) = "")
                          => \A k \in OutputOf(i - 1) : output.value[k].amount = -5000
                    /\ (DebitCreditPath /\ DebitCell(row) = "" /\ CreditCell(row) = "120.00")
                          => \A k \in OutputOf(i - 1) : output.value[k].amount = 12000

\* C2 witness: a record with both a positive debit and a positive credit was
\* normalized through the debit/credit path and carries +credit.
C2_Witness ==
    /\ output.done /\ DebitCreditPath
    /\ \E i \in 1..Len(input.csvData) : \E k \in OutputOf(i - 1) :
          /\ parseAmount(DebitCell(input.csvData[i])) > 0
          /\ parseAmount(CreditCell(input.csvData[i])) > 0
          /\ output.value[k].amount = parseAmount(CreditCell(input.csvData[i]))

\* C3: a Transaction whose lower-cased description has an entry in the override
\* map carries that entry's value as its category, whatever the keyword
\* classifier returns for the description.
C3_OverridePrecedence ==
    output.done =>
        \A k \in 1..Len(output.value) :
            LET key == toLowerCase(output.value[k].description)
            IN  key \in DOMAIN input.categoryOverrides =>
                    output.value[k].category = input.categoryOverrides[key]

\* C3 witness: a Transaction was given an override's category that differs from
\* the one the keyword classifier returns for its description.
C3_Witness ==
    /\ output.done
    /\ \E k \in 1..Len(output.value) :
          LET key == toLowerCase(output.value[k].description)
          IN  /\ key \in DOMAIN input.categoryOverrides
              /\ output.value[k].category = input.categoryOverrides[key]
              /\ categorize(output.value[k].description) # input.categoryOverrides[key]

\* The description a record's Transaction carries.
DescriptionOf(row) ==
    IF Cell(row, input.columnMapping.description) # ""
    THEN Cell(row, input.columnMapping.description) ELSE "Unknown"

\* C6: every Transaction's id is the 0-based position of its source record in the
\* input (its date and description are that record's); ids are pairwise distinct.
C6_IdIsInputPosition ==
    output.done =>
        /\ \A k \in 1..Len(output.value) :
              LET t == output.value[k]
              IN  /\ t.id \in 0..(Len(input.csvData) - 1)
                  /\ t.date = parseDate(DateCell(input.csvData[t.id + 1]))
                  /\ t.description = DescriptionOf(input.csvData[t.id + 1])
        /\ \A k, l \in 1..Len(output.value) :
              output.value[k].id = output.value[l].id => k = l

\* C6 witness: the first record was dropped and a later one kept, so the ids of
\* the output start after a gap.
C6_Witness ==
    /\ output.done
    /\ Len(output.value) >= 1
    /\ output.value[1].id >= 1

\* The positions of the records with a parseable date, when an amount path is mapped.
KeptPositions ==
    {i \in 1..Len(input.csvData) :
        parseDate(DateCell(input.csvData[i])) # null /\ ~NoAmountPath}

\* C7: exactly the records with an unparseable date cell, or with none of
\* amount/debit/credit mapped, are dropped; every other record yields exactly one
\* Transaction, in input order.
C7_DropsExactly ==
    output.done =>
        /\ \A i \in 1..Len(input.csvData) :
              Cardinality(OutputOf(i - 1)) = IF i \in KeptPositions THEN 1 ELSE 0
        /\ Len(output.value) = Cardinality(KeptPositions)
        /\ \A k, l \in 1..Len(output.value) :
              k < l => output.value[k].id < output.value[l].id

\* C7 witness: with the amount column mapped, a record with a parseable date and
\* an amount cell that is no number was kept, and another record was dropped.
C7_Witness ==
    /\ output.done
    /\ input.columnMapping.amount # ""
    /\ \E i \in KeptPositions :
          /\ parseFloat(AmountCell(input.csvData[i])).nan
          /\ OutputOf(i - 1) # {}
    /\ \E i \in 1..Len(input.csvData) : OutputOf(i - 1) = {}


(***************************************************************************)
(* Specification SpecLocate: the Header Locator applied to the rows of one *)
(* file: some preamble rows followed by a few rows of any kind.            *)
(***************************************************************************)
MaxPreamble == 16
MaxBody == 2

\* Rows a bank puts before the header: its name, an account line, a blank row.
PreambleRow(k) ==
    CASE k % 3 = 1 -> <<"Example Bank">>
      [] k % 3 = 2 -> <<"Account", "000123456789">>
      [] OTHER -> <<"", "", "">>

Preamble(p) == [k \in 1..p |-> PreambleRow(k)]

\* Header rows (one with padding and a blank column, one with a repeated name),
\* data rows (one short, one with a cell beyond the header, one whose cells
\* contain header keywords).
BodyPool == {
    <<"Date", "Description", "Amount">>,
    <<" Posting Date ", "Description", "", "Debit", "Credit">>,
    <<"Date", "Amount", "Amount">>,
    <<"2024-01-05", "Acme Corp", "-12.50", "extra">>,
    <<"2024-01-20", "Shell Gas Station">>,
    <<"2024-02-03", "DEBIT CARD PURCHASE", "Merchant deposit", "5.00", "">> }

InitLocate ==
    /\ input \in {Preamble(p) \o body :
                     p \in 0..MaxPreamble, body \in SeqsUpTo(BodyPool, MaxBody)}
    /\ output = NotRun
    /\ AppConstructed

\* The file read as delimited text.
LocateCsvStep ==
    /\ ~output.done
    /\ output' = Ran(findHeaderRowInCSV(input))
    /\ UNCHANGED <<input, appVars>>

\* The file read as the first sheet of a workbook.
LocateSheetStep ==
    /\ ~output.done
    /\ output' = Ran(findHeaderRowInSheet(input))
    /\ UNCHANGED <<input, appVars>>

SpecLocate == InitLocate /\ [][LocateCsvStep \/ LocateSheetStep]_vars

\* The 1-based positions of the rows of the scan window that qualify as a header.
QualifyingInWindow == {i \in 1..Len(input) : i <= 15 /\ acceptsRow(input[i])}

\* C10: the locator returns the top-most qualifying row among the rows of index
\* 0..14, and NONE when no row of that window qualifies, whatever follows it.
C10_ScanWindow ==
    output.done =>
        IF QualifyingInWindow = {} THEN output.value = null
        ELSE LET top == CHOOSE i \in QualifyingInWindow :
                            \A j \in QualifyingInWindow : i <= j
             IN  /\ output.value # null
                 /\ output.value.headers = nonBlank(trimCells(input[top]))
                 /\ Len(output.value.data) <= Len(input) - top

\* C10 witness: the locator returned NONE for a file whose row of index 15
\* qualifies as a header.
C10_Witness ==
    /\ output.done
    /\ output.value = null
    /\ Len(input) >= 16
    /\ acceptsRow(input[16])


\* The top-most row of the scan window that qualifies as a header.
TopQualifying == CHOOSE i \in QualifyingInWindow : \A j \in QualifyingInWindow : i <= j

\* The rows after the 1-based position i that have a non-blank cell, in file order.
RowsWithContentAfter(i) ==
    LET keep == {k \in (i + 1)..Len(input) :
                    \E j \in 1..Len(input[k]) : trim(input[k][j]) # ""}
        nth(n) == CHOOSE k \in keep : Cardinality({m \in keep : m < k}) = n - 1
    IN  [n \in 1..Cardinality(keep) |-> input[nth(n)]]

\* C12: on acceptance of row i the headers are its trimmed cells without the blanks,
\* and the records are the rows after i with a non-blank cell, in file order; a
\* record has the non-blank header names as its keys, and under a name the row's
\* cell at the column of that name (the last one when the name repeats), "" when
\* the row has no such cell.  Cells under a blank name or beyond the header row are
\* in no record.
C12_RecordsProjection ==
    (output.done /\ output.value # null) =>
        LET hdr   == [j \in 1..Len(input[TopQualifying]) |->
                         trim(input[TopQualifying][j])]
            rows  == RowsWithContentAfter(TopQualifying)
            names == {hdr[j] : j \in 1..Len(hdr)} \ {""}
        IN  /\ output.value.headers = SelectSeq(hdr, LAMBDA h : h # "")
            /\ Len(output.value.data) = Len(rows)
            /\ \A k \in 1..Len(rows) :
                   /\ DOMAIN output.value.data[k] = names
                   /\ \A j \in 1..Len(hdr) :
                          (hdr[j] # "" /\ \A b \in (j + 1)..Len(hdr) : hdr[b] # hdr[j]) =>
                              output.value.data[k][hdr[j]] =
                                  IF j <= Len(rows[k]) THEN rows[k][j] ELSE ""

\* C12 witness: a header row with a blank column was accepted and a shorter row
\* after it became a record.
C12_Witness ==
    /\ output.done
    /\ output.value # null
    /\ \E j \in 1..Len(input[TopQualifying]) : trim(input[TopQualifying][j]) = ""
    /\ Len(output.value.data) = 1
    /\ Len(input[Len(input)]) < Len(input[TopQualifying])
    /\ "Credit" \in DOMAIN output.value.data[1]
    /\ output.value.data[1]["Credit"] = ""

\* The records of a result turned back into rows, the cells in the order of the
\* emitted headers.
rebuiltRows(result) ==
    [k \in 1..Len(result.data) |->
        [j \in 1..Len(result.headers) |-> result.data[k][result.headers[j]]]]

\* C13: when the locator succeeds, the locator run again on the rows rebuilt from
\* the records it emitted finds no header row among them.
C13_LocateIdempotent ==
    (output.done /\ output.value # null) =>
        findHeaderRowInCSV(rebuiltRows(output.value)) = null

(***************************************************************************)
(* Specification SpecAccept: the Header Locator applied to a file of one   *)
(* candidate row.                                                          *)
(***************************************************************************)
MaxCells == 5

\* Cells of a candidate row: column names with and without padding, a name that
\* is no header keyword, blank cells and a placeholder name.
CandidateCells == {"Date", " Amount ", "Ref", "", " ", "_1"}

CandidateRows ==
    UNION {[1..n -> CandidateCells] : n \in 3..MaxCells}

InitAccept ==
    /\ input \in {<<row>> : row \in CandidateRows}
    /\ output = NotRun
    /\ AppConstructed

AcceptCsvStep ==
    /\ ~output.done
    /\ output' = Ran(findHeaderRowInCSV(input))
    /\ UNCHANGED <<input, appVars>>

AcceptSheetStep ==
    /\ ~output.done
    /\ output' = Ran(findHeaderRowInSheet(input))
    /\ UNCHANGED <<input, appVars>>

SpecAccept == InitAccept /\ [][AcceptCsvStep \/ AcceptSheetStep]_vars

\* The columns of a row whose cell is blank after trimming or begins with an
\* underscore.
EmptyOrSynthetic(row) ==
    {j \in 1..Len(row) : trim(row[j]) = "" \/ startsWith(trim(row[j]), "_")}

\* C11: a candidate row with more than one empty or synthetic cell is not accepted
\* as the header, whatever its other cells are.
C11_EmptyCellsCounted ==
    (output.done /\ Cardinality(EmptyOrSynthetic(input[1])) > 1) =>
        output.value = null


(***************************************************************************)
(* Specification SpecGuess: guessMapping applied to the headers of a file. *)
(***************************************************************************)
MaxHeaders == 3

\* Header names: several match the same role, some match two roles ("Posting
\* Date" contains "in", "Transaction Amount" contains "trans"), one matches none.
HeaderNames ==
    {"Date", "Posting Date", "Payee Name", "Amount", " Transaction Amount ",
     "Paid out", "Money in", "Balance"}

InitGuess ==
    /\ input \in SeqsUpTo(HeaderNames, MaxHeaders)
    /\ output = NotRun
    /\ AppConstructed

GuessStep ==
    /\ ~output.done
    /\ output' = Ran(guessMapping(input))
    /\ UNCHANGED <<input, appVars>>

SpecGuess == InitGuess /\ [][GuessStep]_vars

\* The columns whose lower-cased trimmed header contains a keyword of the role.
MatchingColumns(role) ==
    {j \in 1..Len(input) :
        \E kw \in RoleKeywords[role] : includes(trim(toLowerCase(input[j])), kw)}

Roles == {"date", "description", "amount", "debit", "credit"}

\* C14: each role holds the left-most header that contains one of the role's
\* keywords, and is empty when no header does.
C14_LeftMostHeaderPerRole ==
    output.done =>
        \A role \in Roles :
            IF MatchingColumns(role) = {} THEN output.value[role] = ""
            ELSE \E j \in MatchingColumns(role) :
                     /\ \A k \in MatchingColumns(role) : j <= k
                     /\ output.value[role] = input[j]

\* C14 witness: two different headers match the date role and the first was taken.
C14_Witness ==
    /\ output.done
    /\ \E j, k \in MatchingColumns("date") : j < k /\ input[j] # input[k]
    /\ output.value.date = input[1]
    /\ output.value.credit # ""

\* C29: the non-empty values of the ColumnMapping guessMapping returns are
\* pairwise distinct headers: no header is given to two roles.
C29_NoHeaderInTwoRoles ==
    output.done =>
        \A r1, r2 \in Roles :
            (r1 # r2 /\ output.value[r1] # "") => output.value[r1] # output.value[r2]

(***************************************************************************)
(* Specification SpecRoundTrip: a file of one preamble row, one header row *)
(* and N data rows is located, its mapping guessed and its records         *)
(* normalized (handleFile followed by applyMapping, with no overrides).    *)
(***************************************************************************)
MaxData == 2

\* A statement layout: its header row and data rows laid out under it, each with
\* a parseable date in the date column and a parseable amount in the amount
\* column (or in one of the debit and credit columns).
Layouts == {
    [header |-> <<"Date", "Description", "Amount">>,
     rows   |-> {<<"2024-01-05", "Acme Corp", "-12.50">>,
                 <<"2024-01-20", "Payroll", "$1,000.00">>,
                 <<"2024-02-03", "DEBIT CARD PURCHASE merchant", "0.00">>}],
    [header |-> <<"Posting Date", "Description", "Debit", "Credit">>,
     rows   |-> {<<"2024-01-05", "Acme Corp", "12.50", "">>,
                 <<"2024-01-20", "Payroll", "", "1000.00">>}],
    [header |-> <<"Transaction Description", "Date", "Amount">>,
     rows   |-> {<<"Acme Corp", "2024-01-05", "-12.50">>,
                 <<"Payroll", "2024-01-20", "1000.00">>}],
    [header |-> <<"Date", "Description", "Value">>,
     rows   |-> {<<"2024-01-05", "Acme Corp", "-12.50">>,
                 <<"2024-01-20", "Payroll", "1000.00">>}],
    [header |-> <<"Date", "Name", "Value">>,
     rows   |-> {<<"2024-01-05", "Acme Corp", "-12.50">>}] }

\* Preamble rows: a bank name, an account line, and a summary line whose cells
\* contain header keywords.
PreamblePool == {
    <<"Example Bank">>,
    <<"Account", "000123456789", "">>,
    <<"Statement Date", "Deposit Account", "Summary">> }

InitRoundTrip ==
    /\ input \in UNION {[preamble : PreamblePool, header : {l.header},
                         data : SeqsUpTo(l.rows, MaxData)] : l \in Layouts}
    /\ output = [stage |-> "read"]
    /\ AppConstructed

FileRows == <<input.preamble, input.header>> \o input.data

\* handleFile: the Header Locator on the rows of the file.
RoundTripLocate ==
    /\ output.stage = "read"
    /\ output' = [stage |-> "located", detected |-> findHeaderRowInCSV(FileRows)]
    /\ UNCHANGED <<input, appVars>>

\* guessMapping on the located headers, then applyMapping on the located records.
RoundTripNormalize ==
    /\ output.stage = "located"
    /\ output.detected # null
    /\ LET guessed == guessMapping(output.detected.headers)
       IN  output' = [stage |-> "normalized", detected |-> output.detected,
                      columnMapping |-> guessed,
                      transactions |-> normalize(output.detected.data, guessed, EmptyMap)]
    /\ UNCHANGED <<input, appVars>>

SpecRoundTrip == InitRoundTrip /\ [][RoundTripLocate \/ RoundTripNormalize]_vars

\* C8 as claimed: locating and normalizing a file of one preamble row, one header
\* row and N data rows with parseable dates and amounts yields N Transactions.
C8_RoundTripAlways ==
    output.stage = "normalized" => Len(output.transactions) = Len(input.data)

\* The locator took the header row of the file, not its preamble row.
HeaderRowLocated ==
    /\ ~acceptsRow(input.preamble)
    /\ output.detected.headers = nonBlank(trimCells(input.header))

\* The guessed mapping has a date column holding a parseable date in every
\* located record, and an amount path.
GuessUsable ==
    /\ \A k \in 1..Len(output.detected.data) :
          parseDate(Cell(output.detected.data[k], output.columnMapping.date)) # null
    /\ \/ output.columnMapping.amount # ""
       \/ output.columnMapping.debit # ""
       \/ output.columnMapping.credit # ""

\* C8 (amended): the round trip yields exactly N Transactions when the locator
\* takes the header row and the mapping guessed from it has a date column that
\* parses in every record and at least one of amount, debit, credit.
C8_RoundTripWhenGuessUsable ==
    (output.stage = "normalized" /\ HeaderRowLocated /\ GuessUsable) =>
        /\ Len(output.detected.data) = Len(input.data)
        /\ Len(output.transactions) = Len(input.data)

\* C8 witness: a file with two data rows went through the round trip with a
\* usable guess and came out as two Transactions.
C8_Witness ==
    /\ output.stage = "normalized" /\ HeaderRowLocated /\ GuessUsable
    /\ Len(input.data) = 2
    /\ Len(output.transactions) = 2

(***************************************************************************)
(* Specification SpecDerive: the monthly aggregation and the category      *)
(* breakdown of one list of transactions.                                  *)
(***************************************************************************)
MaxTransactions == 3

Day(y, m, d) == [isNull |-> FALSE, year |-> y, month |-> m, day |-> d]

\* Date, amount in cents and category of the transactions the lists are made
\* of: shared months and days, both signs, zero amounts, a refund in a
\* spending category, and equal totals in two categories.
TransactionPool ==
    { <<Day(2023, 12, 1), 100, "Income">>,
      <<Day(2023, 12, 31), -1250, "Dining">>,
      <<Day(2024, 1, 5), -1250, "Dining">>,
      <<Day(2024, 1, 5), 0, "Dining">>,
      <<Day(2024, 1, 20), 400000, "Income">>,
      <<Day(2024, 1, 20), -300, "Shopping">>,
      <<Day(2024, 2, 3), 0, "Other">>,
      <<Day(2024, 2, 3), -1250, "Shopping">>,
      <<Day(2024, 2, 10), 2500, "Dining">>,
      <<Day(2024, 11, 15), -300, "Dining">> }

\* The list of transactions: ids are the positions of the rows they came from.
TransactionsOf(picks) ==
    [i \in 1..Len(picks) |->
        [id |-> i - 1, date |-> picks[i][1], description |-> "Card purchase",
         amount |-> picks[i][2], category |-> picks[i][3]]]

InitDerive ==
    /\ input \in {TransactionsOf(p) : p \in SeqsUpTo(TransactionPool, MaxTransactions)}
    /\ output = NotRun
    /\ AppConstructed

MonthlyStep ==
    /\ ~output.done
    /\ output' = [done |-> TRUE, of |-> "monthlyData", value |-> monthlyData(input)]
    /\ UNCHANGED <<input, appVars>>

BreakdownStep ==
    /\ ~output.done
    /\ output' = [done |-> TRUE, of |-> "categoryBreakdown",
                  value |-> categoryBreakdown(input)]
    /\ UNCHANGED <<input, appVars>>

SpecDerive == InitDerive /\ [][MonthlyStep \/ BreakdownStep]_vars

RECURSIVE SumAmounts(_)
SumAmounts(list) ==
    IF list = << >> THEN 0 ELSE Head(list).amount + SumAmounts(Tail(list))

CalendarMonths(list) ==
    {<<list[i].date.year, list[i].date.month>> : i \in 1..Len(list)}

InMonth(list, ym) ==
    SelectSeq(list, LAMBDA t : t.date.year = ym[1] /\ t.date.month = ym[2])

Received(list) == SelectSeq(list, LAMBDA t : t.amount > 0)

Spent(list) == SelectSeq(list, LAMBDA t : t.amount < 0)

MonthRan == output.done /\ output.of = "monthlyData"

BreakdownRan == output.done /\ output.of = "categoryBreakdown"

InCategory(list, c) == SelectSeq(list, LAMBDA t : t.category = c)

SpendingCategories(list) == {list[i].category : i \in {j \in 1..Len(list) : list[j].amount < 0}}

RECURSIVE SumValues(_)
SumValues(entries) ==
    IF entries = << >> THEN 0 ELSE Head(entries).value + SumValues(Tail(entries))

MaxMonths == 4

MonthPool == <<"2023-11", "2023-12", "2024-01", "2024-10", "2024-11", "2024-12">>

\* Income and expenses of a month, in cents.
MonthTotals ==
    { <<100000, 50000>>, <<110000, 60000>>, <<90000, 55000>>,
      <<100, 200>>, <<200, 200>> }

\* The increasing sequences of at most n positions of the pool.
RECURSIVE AscendingPicks(_)
AscendingPicks(n) ==
    IF n = 0 THEN {<< >>}
    ELSE AscendingPicks(n - 1) \cup
         {Append(q, j) : q \in {p \in AscendingPicks(n - 1) : Len(p) = n - 1},
                         j \in 1..Len(MonthPool)}

IsAscending(q) == \A k \in 1..(Len(q) - 1) : q[k] < q[k + 1]

AggregatesOf(picks, totals) ==
    [k \in 1..Len(picks) |->
        monthlyEntry([month |-> MonthPool[picks[k]],
                      income |-> totals[k][1], expenses |-> totals[k][2]])]

InitForecast ==
    /\ \E picks \in {q \in AscendingPicks(MaxMonths) : IsAscending(q)} :
           \E totals \in [1..Len(picks) -> MonthTotals] :
               input = AggregatesOf(picks, totals)
    /\ output = NotRun
    /\ AppConstructed

ForecastStep ==
    /\ ~output.done
    /\ output' = Ran(forecast(input))
    /\ UNCHANGED <<input, appVars>>

SpecForecast == InitForecast /\ [][ForecastStep]_vars

\* The months since year 0 of a month key.
MonthNumber(key) ==
    12 * DigitsValue(SubSeq(key, 1, HyphenAt(key) - 1))
    + DigitsValue(SubSeq(key, HyphenAt(key) + 1, Len(key))) - 1

KeyOfMonthNumber(n) == ToString(n \div 12) \o "-" \o Pad2((n % 12) + 1)

\* C18: the forecast's month keys are the three calendar months after the
\* last aggregate's month, December followed by January of the next year, the
\* month written with two digits.
C18_NextThreeMonths ==
    output.done /\ Len(input) >= 2 =>
        /\ Len(output.value) = 3
        /\ \A i \in 1..3 :
               /\ output.value[i].month =
                      KeyOfMonthNumber(MonthNumber(input[Len(input)].month) + i)
               /\ Len(output.value[i].month) = 7

\* C18 witness: after 2024-11 the forecast runs over the end of the year.
C18_Witness ==
    /\ output.done
    /\ Len(input) >= 2
    /\ input[Len(input)].month = "2024-11"
    /\ output.value[1].month = "2024-12"
    /\ output.value[2].month = "2025-01"
    /\ output.value[3].month = "2025-02"

\* The last min(3, n) aggregates.
Window == {k \in 1..Len(input) : k > Len(input) - 3}

RECURSIVE SumOver(_, _)
SumOver(S, field) ==
    IF S = {} THEN 0
    ELSE LET k == CHOOSE k \in S : TRUE
         IN input[k][field] + SumOver(S \ {k}, field)

\* v, in cents, is the whole unit nearest to total / count cents, a half
\* going up.
IsRoundedMean(v, total, count) ==
    /\ v % 100 = 0
    /\ count * (v - 50) <= total
    /\ total < count * (v + 50)

\* C19: every forecast point carries the rounded mean income and the rounded
\* mean expenses of the last min(3, n) aggregates and the rounded difference
\* of the two means, and the three points carry the same values.
C19_RoundedMeans ==
    output.done /\ Len(input) >= 2 =>
        \A i \in 1..Len(output.value) :
            /\ IsRoundedMean(output.value[i].income,
                             SumOver(Window, "income"), Cardinality(Window))
            /\ IsRoundedMean(output.value[i].expenses,
                             SumOver(Window, "expenses"), Cardinality(Window))
            /\ IsRoundedMean(output.value[i].net,
                             SumOver(Window, "income") - SumOver(Window, "expenses"),
                             Cardinality(Window))
            /\ output.value[i].income = output.value[1].income
            /\ output.value[i].expenses = output.value[1].expenses
            /\ output.value[i].net = output.value[1].net

\* C19 witness: four aggregates, the last three with incomes 1000, 1100, 900
\* and expenses 500, 600, 550, give 1000, 550 and 450, the first aggregate
\* left out of the means.
C19_Witness ==
    /\ output.done
    /\ Len(input) = 4
    /\ <<input[2].income, input[3].income, input[4].income>> = <<100000, 110000, 90000>>
    /\ <<input[2].expenses, input[3].expenses, input[4].expenses>> = <<50000, 60000, 55000>>
    /\ input[1].income = 200
    /\ \A i \in 1..3 :
           /\ output.value[i].income = 100000
           /\ output.value[i].expenses = 55000
           /\ output.value[i].net = 45000

(***************************************************************************)
(* Specification SpecMapper: the mapper screen, from the state in which    *)
(* handleFile leaves a signed-in user with one file read, until the        *)
(* mapping is applied or given up.                                         *)
(***************************************************************************)
InitMapper ==
    /\ input = "" /\ output = NotRun
    /\ \E u \in Uids, file \in {f \in Files : Len(FilesRead[f].json) > 0} :
           /\ user = u /\ authLoading = FALSE
           /\ transactions = << >> /\ view = "upload" /\ selectedMonth = ""
           /\ categoryOverrides = EmptyMap
           /\ csvHeaders = FilesRead[file].headers
           /\ csvData = FilesRead[file].json
           /\ columnMapping = FilesRead[file].guessed
           /\ showMapper = TRUE
           /\ savedDatasets = << >> /\ activeDatasetName = "" /\ dataLoading = FALSE
           /\ saving = FALSE /\ uploadFileName = stripExtension(file.name)
           /\ monthlyDataMemo = << >> /\ forecastMemo = << >>
           /\ overrideTimer = NoTimer
           /\ loads = << >> /\ saveOps = << >>
           /\ firestore = [v \in Uids |-> NoDoc]
           /\ used = [auth |-> 1, files |-> 1, recats |-> 0, deletes |-> 0]
           /\ unsavedOverrides = {} /\ recategorized = EmptyMap

NextMapper ==
    \/ \E key \in DOMAIN columnMapping,
           value \in {""} \cup {csvHeaders[j] : j \in 1..Len(csvHeaders)} :
           setColumnMapping(key, value)
    \/ mapperBack
    \/ applyMapping
    \/ \E i \in 1..Len(saveOps), ok \in SaveOutcomes : saveDatasetRead(i, ok)
    \/ \E i \in 1..Len(saveOps), ok \in SaveOutcomes : saveDatasetThen(i, ok)

SpecMapper == InitMapper /\ [][NextMapper]_vars

\* The mapping lacks the date, the description, or every column of amounts.
IncompleteMapping ==
    \/ columnMapping.date = ""
    \/ columnMapping.description = ""
    \/ \A role \in {"amount", "debit", "credit"} : columnMapping[role] = ""

\* C20: while the mapping on the mapper screen is incomplete, no step applies
\* it: the transactions, the view, the mapper screen's data and the saved
\* datasets' name stay as they are and no dataset is handed to saveDataset.
C20_IncompleteMappingNotApplied ==
    [][showMapper /\ IncompleteMapping =>
          /\ transactions' = transactions
          /\ view' = view
          /\ activeDatasetName' = activeDatasetName
          /\ Len(saveOps') <= Len(saveOps)
          /\ showMapper' \/ csvData' = << >>]_vars

\* C20 witness: the description was unselected on the mapper screen of a file
\* with rows, the other roles still mapped, and nothing was applied.
C20_Witness ==
    /\ showMapper
    /\ Len(csvData) > 0
    /\ columnMapping.description = ""
    /\ columnMapping.date # ""
    /\ columnMapping.amount # ""
    /\ transactions = << >>
    /\ view = "upload"

(***************************************************************************)
(* The forecast held by the application, under Spec.                       *)
(***************************************************************************)

\* C17: in every state the forecast on hand is the one of the monthly
\* aggregates of the current transactions: empty when they span fewer than
\* two calendar months, three points flagged as projections otherwise.
C17_ForecastFollowsTransactions ==
    /\ forecastMemo = forecast(monthlyData(transactions))
    /\ IF Cardinality(CalendarMonths(transactions)) < 2
       THEN forecastMemo = << >>
       ELSE /\ Len(forecastMemo) = 3
            /\ \A i \in 1..3 : forecastMemo[i].forecast

\* C17 witness: the forecast view is empty over the transactions of a second
\* import, of one month, made after the import of a file of two months whose
\* forecast had three points.
C17_Witness ==
    /\ view = "forecast"
    /\ used.files = 2
    /\ Cardinality(CalendarMonths(transactions)) = 1
    /\ forecastMemo = << >>
    /\ \E k \in 1..Len(savedDatasets) :
           Len(forecast(monthlyData(savedDatasets[k].transactions))) = 3

(***************************************************************************)
(* Loading, saving and re-categorizing, under Spec.                        *)
(***************************************************************************)

\* A loadUserData call in flight resolves in this step after a read that
\* threw or found no document.
LoadFoundNothing ==
    \E i \in 1..Len(loads) :
        \/ loadUserDataThen(i, FALSE)
        \/ ~firestore[loads[i]].exists /\ loadUserDataThen(i, TRUE)

\* C21: a load whose read fails or finds no document leaves empty category
\* overrides and an empty list of datasets with the loading flag cleared, and
\* an import made with empty overrides gives every transaction the category
\* of the keyword rules.
C21_FailedLoadIsNoPriorState ==
    /\ [][LoadFoundNothing =>
              /\ categoryOverrides' = EmptyMap
              /\ savedDatasets' = << >>
              /\ ~dataLoading']_vars
    /\ [][applyMapping /\ categoryOverrides = EmptyMap =>
              /\ Len(transactions') = Len(normalize(csvData, columnMapping, EmptyMap))
              /\ \A k \in 1..Len(transactions') :
                     transactions'[k].category = categorize(transactions'[k].description)]_vars

\* C21 witness: the document of the signed-in user holds overrides, the load
\* of this sign-in is over without them, and a file was imported.
C21_Witness ==
    /\ user # NoUser
    /\ loads = << >>
    /\ ~dataLoading
    /\ firestore[user].exists
    /\ firestore[user].categoryOverrides # EmptyMap
    /\ categoryOverrides = EmptyMap
    /\ savedDatasets = << >>
    /\ recategorized = EmptyMap
    /\ Len(transactions) > 0
    /\ \A k \in 1..Len(transactions) :
           transactions[k].category = categorize(transactions[k].description)

(***************************************************************************)
(* The categories an import gives, under SpecNormalize.                    *)
(***************************************************************************)

\* Object.keys(CATEGORY_COLORS): the names of the category select.
CATEGORY_NAMES ==
    {"Groceries", "Dining Out", "Transportation", "Housing", "Utilities",
     "Entertainment", "Shopping", "Health", "Insurance", "Subscriptions",
     "Travel", "Education", "Income", "Other"}

\* C22: with override values taken from the fixed set of categories, every
\* transaction of an import has a category of that set.
C22_ClosedCategorySet ==
    /\ output.done
    /\ \A k \in DOMAIN input.categoryOverrides :
           input.categoryOverrides[k] \in CATEGORY_NAMES
    => \A k \in 1..Len(output.value) : output.value[k].category \in CATEGORY_NAMES

(***************************************************************************)
(* Specification SpecSession: sign-ins and sign-outs of two accounts over  *)
(* documents stored by earlier sessions, with the loads and the debounce   *)
(* timer they start.                                                       *)
(***************************************************************************)
Accounts == {"u1", "u2"}

StoredDocs ==
    [u \in Accounts |->
        IF u = "u1"
        THEN [exists |-> TRUE,
              categoryOverrides |-> [k \in {"corner bakery"} |-> "Shopping"],
              datasets |-> << [name |-> "jan", transactions |-> << >>] >>]
        ELSE [exists |-> TRUE,
              categoryOverrides |-> [k \in {"shell gas station"} |-> "Travel"],
              datasets |-> << >>]]

InitSession ==
    /\ input = "" /\ output = NotRun
    /\ AppConstructedOver(StoredDocs)

NextSession ==
    \/ \E u \in Accounts \cup {NoUser} : onAuthStateChanged(u)
    \/ \E i \in 1..Len(loads), ok \in LoadOutcomes : loadUserDataThen(i, ok)
    \/ \E ok \in TimerOutcomes : overrideTimerFires(ok)

SpecSession == InitSession /\ [][NextSession]_vars

DatasetNames(list) == {list[k].name : k \in 1..Len(list)}

\* C23: the overrides and the saved datasets in state are those loaded for
\* the signed-in account, or empty: they are empty while nobody is signed in,
\* and no account's document receives an override of the other account.
C23_StateIsOfSignedInUser ==
    /\ user = NoUser => categoryOverrides = EmptyMap /\ savedDatasets = << >>
    /\ user # NoUser =>
           /\ categoryOverrides \in {EmptyMap, StoredDocs[user].categoryOverrides}
           /\ DatasetNames(savedDatasets) \subseteq DatasetNames(StoredDocs[user].datasets)
    /\ \A u \in Accounts :
           DOMAIN firestore[u].categoryOverrides
               \subseteq DOMAIN StoredDocs[u].categoryOverrides

\* C24: the debounce timer never hands saveCategoryOverrides the empty map
\* the state holds before the load, while a load for the signed-in account
\* is still in flight.
C24_NoSaveBeforeLoad ==
    [][(\E ok \in TimerOutcomes : overrideTimerFires(ok)) =>
          ~ /\ overrideTimer.uid = user
            /\ overrideTimer.categoryOverrides = EmptyMap
            /\ \E i \in 1..Len(loads) : loads[i] = user]_vars

(***************************************************************************)
(* The persisted and the local list of datasets, under Spec.               *)
(***************************************************************************)

\* The i-th call in flight completes its write in this step.
WriteCompletes(i) ==
    \/ saveOps[i].phase = "write" /\ saveDatasetThen(i, TRUE)
    \/ saveOps[i].phase = "deleteWrite" /\ deleteDatasetThen(i, TRUE)

\* C25: the write of a saveDataset or deleteDataset call changes the persisted
\* list for its own name only: a dataset of another name is in the list after
\* the write exactly when it was before, whatever other call wrote between
\* this call's read and its write.
C25_NoLostUpdate ==
    [][\A i \in 1..Len(saveOps) :
           WriteCompletes(i) =>
               \A n \in (DatasetNames(firestore[saveOps[i].uid].datasets)
                         \cup DatasetNames(firestore'[saveOps[i].uid].datasets))
                        \ {saveOps[i].name} :
                   n \in DatasetNames(firestore[saveOps[i].uid].datasets)
                   <=> n \in DatasetNames(firestore'[saveOps[i].uid].datasets)]_vars

NoDuplicateNames(list) ==
    \A j, k \in 1..Len(list) : list[j].name = list[k].name => j = k

\* after is before with the dataset named n put in place of the one of that
\* name, or added at the end when there is none.
ReplacedOrAppended(before, after, n) ==
    IF n \in DatasetNames(before)
    THEN /\ Len(after) = Len(before)
         /\ \A k \in 1..Len(before) :
                /\ after[k].name = before[k].name
                /\ before[k].name # n => after[k] = before[k]
    ELSE /\ Len(after) = Len(before) + 1
         /\ after[Len(after)].name = n
         /\ \A k \in 1..Len(before) : after[k] = before[k]

\* after is before without the datasets named n, the others in their order.
Removed(before, after, n) ==
    /\ n \notin DatasetNames(after)
    /\ after = SelectSeq(before, LAMBDA d : d.name # n)

\* C26: the persisted list of every account and the local list never hold two
\* datasets of one name.  What a save builds from the list it read has the
\* dataset of its name replaced where it was, or appended; what a delete
\* builds has the datasets of its name removed; each call writes what it
\* built, so that a call no other call overlaps changes the persisted list in
\* that way.  The callback of a save and handleDeleteDataset change the local
\* list in the same way.
C26_DatasetNamesUnique ==
    /\ [](/\ \A u \in Uids : NoDuplicateNames(firestore[u].datasets)
          /\ NoDuplicateNames(savedDatasets))
    /\ [][\A i \in 1..Len(saveOps) :
              /\ saveOps[i].phase = "read" /\ saveDatasetRead(i, TRUE)
                 => ReplacedOrAppended(firestore[saveOps[i].uid].datasets,
                                       saveOps'[i].existing, saveOps[i].name)
              /\ saveOps[i].phase = "write" /\ saveDatasetThen(i, TRUE)
                 => firestore'[saveOps[i].uid].datasets = saveOps[i].existing
              /\ saveOps[i].phase = "write" /\ (\E ok \in SaveOutcomes : saveDatasetThen(i, ok))
                 => ReplacedOrAppended(savedDatasets, savedDatasets', saveOps[i].name)
              /\ saveOps[i].phase = "deleteRead" /\ deleteDatasetRead(i, TRUE)
                 /\ firestore[saveOps[i].uid].exists
                 => Removed(firestore[saveOps[i].uid].datasets,
                            saveOps'[i].existing, saveOps[i].name)
              /\ saveOps[i].phase = "deleteWrite" /\ deleteDatasetThen(i, TRUE)
                 => firestore'[saveOps[i].uid].datasets = saveOps[i].existing]_vars
    /\ [][\A k \in 1..Len(savedDatasets) :
              handleDeleteDataset(k) =>
                  Removed(savedDatasets, savedDatasets', savedDatasets[k].name)]_vars

\* C26 witness: the one file imported twice, the second time after a
\* re-categorization, is stored once, with the categories of the second import.
C26_Witness ==
    /\ user # NoUser
    /\ used = [auth |-> 1, files |-> 2, recats |-> 1, deletes |-> 0]
    /\ saveOps = << >>
    /\ Len(firestore[user].datasets) = 1
    /\ Len(savedDatasets) = 1
    /\ \E k \in 1..Len(savedDatasets[1].transactions) :
           savedDatasets[1].transactions[k].category \in CategoryChoices
    /\ \E k \in 1..Len(firestore[user].datasets[1].transactions) :
           firestore[user].datasets[1].transactions[k].category \in CategoryChoices

(***************************************************************************)
(* The rounding of the forecast, under SpecForecast.                       *)
(***************************************************************************)

\* C27: in every forecast point net is within one whole unit (a hundred
\* cents) of income minus expenses.
C27_NetWithinOneOfDifference ==
    output.done =>
        \A i \in 1..Len(output.value) :
            Abs(output.value[i].net
                - (output.value[i].income - output.value[i].expenses)) <= 100

\* C27 witness: a forecast whose net is not income minus expenses.
C27_Witness ==
    /\ output.done
    /\ Len(output.value) = 3
    /\ output.value[1].net # output.value[1].income - output.value[1].expenses

(***************************************************************************)
(* Specification SpecRecategorize: one call of updateCategory on one list  *)
(* of transactions and one override map.                                   *)
(***************************************************************************)
MaxListed == 3

\* Description, date, amount in cents and category of the listed transactions:
\* one merchant twice over, in two spellings and two months.
ListedPool ==
    { <<"Corner Bakery", Day(2024, 1, 5), -1250, "Dining">>,
      <<"Corner Bakery", Day(2024, 2, 3), -300, "Dining">>,
      <<"CORNER BAKERY", Day(2024, 2, 3), -300, "Shopping">>,
      <<"Payroll", Day(2024, 1, 20), 400000, "Income">> }

\* The list of transactions: ids are the positions of the rows they came from.
ListedOf(picks) ==
    [i \in 1..Len(picks) |->
        [id |-> i - 1, date |-> picks[i][2], description |-> picks[i][1],
         amount |-> picks[i][3], category |-> picks[i][4]]]

OverridePool == {EmptyMap, [k \in {"payroll"} |-> "Travel"]}

\* The ids a call can carry: those of the list and one past them.
InitRecategorize ==
    /\ input \in [transactions : {ListedOf(p) : p \in SeqsUpTo(ListedPool, MaxListed)},
                  categoryOverrides : OverridePool,
                  id : 0..MaxListed,
                  newCat : CategoryChoices]
    /\ output = NotRun
    /\ AppConstructed

RecategorizeStep ==
    /\ ~output.done
    /\ output' = Ran([transactions |->
                          withCategory(input.transactions, input.id, input.newCat),
                      categoryOverrides |->
                          overridesAfterUpdate(input.transactions,
                              input.categoryOverrides, input.id, input.newCat)])
    /\ UNCHANGED <<input, appVars>>

SpecRecategorize == InitRecategorize /\ [][RecategorizeStep]_vars

\* C28: updateCategory(id, c) gives the transaction with that id the category
\* c and leaves every other transaction, those of the same description
\* included, as it was; ids, dates, descriptions and amounts, and with them
\* the monthly aggregates and the forecast, are unchanged; without a
\* transaction of that id neither the list nor the override map changes.
C28_OnlyTheCategoryOfThatId ==
    output.done =>
        LET before == input.transactions
            after  == output.value.transactions
        IN  /\ Len(after) = Len(before)
            /\ \A k \in 1..Len(before) :
                   /\ after[k].id = before[k].id
                   /\ after[k].date = before[k].date
                   /\ after[k].description = before[k].description
                   /\ after[k].amount = before[k].amount
                   /\ after[k].category =
                          IF before[k].id = input.id THEN input.newCat
                          ELSE before[k].category
            /\ monthlyData(after) = monthlyData(before)
            /\ forecast(monthlyData(after)) = forecast(monthlyData(before))
            /\ (\A k \in 1..Len(before) : before[k].id # input.id) =>
                   /\ after = before
                   /\ output.value.categoryOverrides = input.categoryOverrides

\* C28 witness: of two transactions of one description the first was given a
\* new category and the second kept its own.
C28_Witness ==
    /\ output.done
    /\ Len(input.transactions) = 3
    /\ input.id = 0
    /\ input.transactions[1].description = input.transactions[2].description
    /\ output.value.transactions[1].category = input.newCat
    /\ output.value.transactions[2].category # input.newCat
    /\ Len(monthlyData(input.transactions)) = 2

(***************************************************************************)
(* Re-categorization and the saved datasets, under Spec.                   *)
(***************************************************************************)
Recategorizes ==
    \E k \in 1..Len(transactions), newCat \in CategoryChoices :
        updateCategory(transactions[k].id, newCat)

\* The categories of a list of transactions, by id.
CategoriesOf(list) == {<<list[k].id, list[k].category>> : k \in 1..Len(list)}

\* C30: a call of updateCategory changes no saved dataset, neither in the
\* local savedDatasets list nor in the persisted list nor in a save under
\* way, and loadSavedDataset installs the categories the entry holds: those
\* of the time it was saved.
C30_SavedDatasetsKeepCategories ==
    /\ [][Recategorizes =>
             /\ savedDatasets' = savedDatasets
             /\ \A u \in Uids : firestore'[u].datasets = firestore[u].datasets
             /\ saveOps' = saveOps]_vars
    /\ [][\A k \in 1..Len(savedDatasets) :
             loadSavedDataset(k) =>
                 CategoriesOf(transactions') =
                     CategoriesOf(savedDatasets[k].transactions)]_vars

\* C30 witness: after a re-categorization the active dataset was opened again
\* from the saved list, and a transaction whose description has an override
\* shows the category of the save, not that of the override; the persisted
\* entry holds the same categories.
C30_Witness ==
    /\ used.recats = 1
    /\ user # NoUser
    /\ saveOps = << >>
    /\ \E k \in 1..Len(savedDatasets) :
           /\ savedDatasets[k].name = activeDatasetName
           /\ transactions = savedDatasets[k].transactions
           /\ \E d \in 1..Len(firestore[user].datasets) :
                  /\ firestore[user].datasets[d].name = activeDatasetName
                  /\ CategoriesOf(firestore[user].datasets[d].transactions) =
                         CategoriesOf(transactions)
    /\ \E j \in 1..Len(transactions) :
           /\ toLowerCase(transactions[j].description) \in DOMAIN categoryOverrides
           /\ categoryOverrides[toLowerCase(transactions[j].description)] #
                  transactions[j].category

=============================================================================
